---------------------------- MODULE Spec2Model ----------------------------
(***************************************************************************)
(* Model of the diary agent gateway: process start-up, the /agent HTTP     *)
(* handler, the orchestration router (orchestrate_request), the question   *)
(* answering collaborator (generate_auto_response) and the evaluation      *)
(* trigger (run_evaluation).                                               *)
(*                                                                         *)
(* Encoding of Python values.  A str is a sequence of tokens: user text is *)
(* a sequence of characters (Hangul syllables are written in romanised     *)
(* form, one token per syllable), fixed messages are one-token sequences   *)
(* and f-strings are the sequence of their parts.  "" is << >> and the     *)
(* truth value of a str is Len(s) > 0.  JSON values of a request body are  *)
(* tagged records: None, Str(s) and Int5 (a non-zero number).              *)
(***************************************************************************)
EXTENDS Integers, Sequences, FiniteSets, TLC

VARIABLES
    started,              \* startup_handler has run (uvicorn serves only afterwards)
    orchestrate_request,  \* app.core.startup.orchestrate_request: "None" or "orch"
    environ,              \* os.environ entries the request path reads
    loop,                 \* request whose handler occupies the event-loop thread, 0 = free
    req,                  \* per request: handler / router / collaborator frame
    sent,                 \* the decoded body of the request a handler run is observed on
    image_generator_agent, \* image_generator/agent.py: the module-level Agent, once imported
    response_text,        \* the argument of a call of _parse_json_response
    parsed,               \* what that call returned
    agent_messages,       \* agent.messages handed to the tool-result extraction
    extracted,            \* what the extraction functions made of it
    eval_input,           \* the arguments and the environment of a run_evaluation call
    evaluation,           \* how that call ended
    s3_objects,           \* the put_object calls S3 has received, in order
    tool_calls            \* the image tools called so far, with what they returned

vars == <<started, orchestrate_request, environ, loop, req, sent, image_generator_agent,
          response_text, parsed, agent_messages, extracted, eval_input, evaluation,
          s3_objects, tool_calls>>

---------------------------------------------------------------------------
(* Bounds of the model *)

\* longest user text enumerated for a direct call of the router
MaxLen == 3

\* number of /agent requests that may be in flight together
NumReqs == 2

Reqs == 1..NumReqs

---------------------------------------------------------------------------
(* Python values *)

None == [t |-> "None"]

Str(s) == [t |-> "str", s |-> s]

\* a JSON number other than 0 sent where text is expected
Int5 == [t |-> "int"]

\* bool(v) for the values above
Truthy(v) == \/ v.t = "int"
             \/ v.t = "str" /\ Len(v.s) > 0

\* a or b
PyOr(a, b) == IF Truthy(a) THEN a ELSE b

\* mutation: text.startswith(pattern)
IsSubstringAtStart(p, text) == Len(p) <= Len(text) /\ SubSeq(text, 1, Len(p)) = p

\* pattern in text, for two str
IsSubstring(p, text) ==
    \E i \in 1..(Len(text) - Len(p) + 1) : SubSeq(text, i, i + Len(p) - 1) = p

---------------------------------------------------------------------------
(* Fast classifier *)

\* the lexicon of _is_likely_question, in source order (a set: any() ignores order)
question_patterns ==
    { <<"?">>, <<"haet", "eo", "?">>, <<"mwo", "ya">>, <<"mwo", "e", "yo">>,
      <<"mwon", "ga", "yo">>,
      <<"eon", "je">>, <<"eo", "di">>, <<"nu", "ga">>, <<"nu", "gu">>, <<"wae">>,
      <<"eo", "tteot", "ge">>, <<"eo", "tteon">>,
      <<"myeot">>, <<"eol", "ma">>, <<"al", "ryeo", "jwo">>,
      <<"al", "ryeo", "ju", "se", "yo">>, <<"ga", "reu", "chyeo">>,
      <<"it", "eo", "?">>, <<"it", "na", "yo">>, <<"it", "eul", "kka">>,
      <<"eop", "eo", "?">>, <<"eop", "na", "yo">>,
      <<"hal", "kka">>, <<"hal", "kka", "yo">>, <<"hae", "jwo">>,
      <<"hae", "ju", "se", "yo">>, <<"hae", "jul", "rae">>,
      <<"bol", "kka">>, <<"bol", "rae">>, <<"meok", "eul", "kka">>, <<"gal", "kka">>,
      <<"mat", "a", "?">>, <<"mat", "na", "yo">>, <<"a", "ni", "ya", "?">>,
      <<"a", "nin", "ga", "yo">>,
      <<"in", "ga", "yo">>, <<"in", "ga">>, <<"il", "kka">>, <<"il", "kka", "yo">>,
      <<"jul", "rae">>, <<"jul", "kka">>, <<"jul", " ", "su">>, <<"su", " ", "it", "eo">>,
      <<"su", " ", "it", "na", "yo">>,
      <<"mwol">>, <<"mwo", "reul">>, <<"mu", "eot">>, <<"mu", "seun">>,
      <<"mwo", "haet">>, <<"mwo", " ", "haet">> }

\* mutation: an empty pattern in the lexicon ('' in text is True for every text)
is_likely_question_with_empty_pattern(text) ==
    \E p \in question_patterns \cup {<< >>} : IsSubstring(p, text)

\* _is_likely_question(text)
is_likely_question(text) == \E p \in question_patterns : IsSubstring(p, text)

---------------------------------------------------------------------------
(* Fixed texts of the source *)

\* "message saved" (orchestra_agent.py:228)
MSG_SAVED == <<"msg_saved">>

\* "this is the answer to the question" (orchestra_agent.py:263)
MSG_ANSWERED == <<"msg_answered">>

\* f"an error occurred while generating the answer: {cause}" (orchestra_agent.py:271, question/agent.py:249)
AnswerError(cause) == <<"answer_generation_error: ", cause>>

\* "Knowledge Base configuration error ..." (question/agent.py:119)
KB_CONFIG_ERROR == <<"kb_config_error">>

\* "orchestrator initialisation failed" (endpoints/agent.py:26)
MSG_INIT_FAILED == <<"msg_orchestrator_init_failed">>

\* "input data is required" (endpoints/agent.py:47)
MSG_INPUT_REQUIRED == <<"msg_input_required">>

\* f"an error occurred while processing the request: {cause}" (endpoints/agent.py:80)
RequestError(cause) == <<"request_processing_error: ", cause>>

---------------------------------------------------------------------------
(* The reasoning-agent session of one generate_auto_response call *)

PyList(xs) == [t |-> "list", v |-> xs]

TextBlock(s) == [text |-> s]

ToolUseBlock(id) == [toolUse |-> id]

ToolResultBlock(tr) == [toolResult |-> tr]

\* a message of agent.messages: its content is a list of blocks
Message(role, blocks) == [role |-> role, content |-> PyList(blocks)]

\* what the retrieve tool hands back: {"toolUseId", "status", "content": [{"text": ...}]}
RetrieveResult(id, ref) ==
    [toolUseId |-> id, status |-> "success", content |-> PyList(<<TextBlock(ref)>>)]

PROMPT == <<"search_query">>

REF1 == <<"diary_1">>

REF2 == <<"diary_2">>

\* the model answered without calling retrieve
HistoryNoTool ==
    << Message("user", <<TextBlock(PROMPT)>>),
       Message("assistant", <<TextBlock(<<"final">>)>>) >>

\* one retrieve call
HistoryOneTool ==
    << Message("user", <<TextBlock(PROMPT)>>),
       Message("assistant", <<TextBlock(<<"thinking">>), ToolUseBlock(1)>>),
       Message("user", <<ToolResultBlock(RetrieveResult(1, REF1))>>),
       Message("assistant", <<TextBlock(<<"final">>)>>) >>

\* two retrieve calls in two turns
HistoryTwoTurns ==
    << Message("user", <<TextBlock(PROMPT)>>),
       Message("assistant", <<ToolUseBlock(1)>>),
       Message("user", <<ToolResultBlock(RetrieveResult(1, REF1))>>),
       Message("assistant", <<ToolUseBlock(2)>>),
       Message("user", <<ToolResultBlock(RetrieveResult(2, REF2))>>),
       Message("assistant", <<TextBlock(<<"final">>)>>) >>

\* two retrieve calls requested in one turn, answered in one message
HistoryTwoInOne ==
    << Message("user", <<TextBlock(PROMPT)>>),
       Message("assistant", <<ToolUseBlock(1), ToolUseBlock(2)>>),
       Message("user", <<ToolResultBlock(RetrieveResult(1, REF1)),
                         ToolResultBlock(RetrieveResult(2, REF2))>>),
       Message("assistant", <<TextBlock(<<"final">>)>>) >>

SessionHistories == {HistoryNoTool, HistoryOneTool, HistoryTwoTurns, HistoryTwoInOne}

\* str(response) of the agent: possibly empty
ResponseTexts == { << >>, <<"answer_1">> }

\* auto_response_agent(search_query) raises (model or retrieval failure) ...
AgentRaises(cause) == [raised |-> TRUE, cause |-> cause, text |-> << >>, messages |-> << >>]

\* ... or returns, leaving its message history in agent.messages
AgentReturns(text, messages) ==
    [raised |-> FALSE, cause |-> "", text |-> text, messages |-> messages]

AgentOutcomes ==
    {AgentRaises("ModelError")}
      \cup {AgentReturns(t, h) : t \in ResponseTexts, h \in SessionHistories}

HasKey(rec, k) == k \in DOMAIN rec

\* the tool-use ids of a session are issued during the agent call that produced them:
\* id i of the call made for request r is written <<r, i>>
StampBlock(b, r) ==
    IF HasKey(b, "toolUse") THEN ToolUseBlock(<<r, b.toolUse>>)
    ELSE IF HasKey(b, "toolResult")
    THEN ToolResultBlock([b.toolResult EXCEPT !.toolUseId = <<r, @>>])
    ELSE b

\* the session the Agent constructed at line 136 holds after the call made for request r
StampSession(outcome, r) ==
    [outcome EXCEPT !.messages =
        [i \in 1..Len(@) |->
            Message(@[i].role,
                    [j \in 1..Len(@[i].content.v) |-> StampBlock(@[i].content.v[j], r)])]]

\* isinstance(x, dict): blocks, tool results and items are records keyed by their Python
\* keys; every other value carries its type in the field t
IsDict(x) == ~HasKey(x, "t")

\* the blocks the inner loop of line 263 goes through: a str content is gone through
\* character by character, and no character contains "toolResult"
IterBlocks(content) == IF content.t = "list" THEN content.v ELSE << >>

\* the blocks of message m that carry a toolResult, each replaced by what line 265 appends
MessageToolResults(m) ==
    LET hits == SelectSeq(IterBlocks(m.content), LAMBDA b : HasKey(b, "toolResult"))
    IN  [j \in 1..Len(hits) |-> m.content.v[1].toolResult]

\* m["content"] or m["content"][0]["toolResult"] raises KeyError, the loop over a content
\* that is None raises TypeError
MessageRaises(m) ==
    \/ ~HasKey(m, "content")
    \/ m.content = None
    \/ /\ \E j \in 1..Len(IterBlocks(m.content)) : HasKey(m.content.v[j], "toolResult")
       /\ ~HasKey(m.content.v[1], "toolResult")

MessageError(m) ==
    IF HasKey(m, "content") /\ m.content = None THEN "TypeError" ELSE "KeyError"

\* the exception of the first message that raises
RECURSIVE FirstError(_)
FirstError(messages) ==
    IF MessageRaises(Head(messages)) THEN MessageError(Head(messages))
    ELSE FirstError(Tail(messages))

RECURSIVE ConcatToolResults(_)
ConcatToolResults(messages) ==
    IF messages = << >> THEN << >>
    ELSE MessageToolResults(Head(messages)) \o ConcatToolResults(Tail(messages))

\* an entry left in the list by an earlier call
STALE_RESULT == [RetrieveResult(1, REF2) EXCEPT !.toolUseId = <<0, 1>>]

\* mutation: tool_results is not a fresh list (a default argument or a module-level
\* list), so that it still holds an entry of an earlier call
filter_tool_result_with_stale_entry(messages) ==
    IF \E i \in 1..Len(messages) : MessageRaises(messages[i])
    THEN [raised |-> TRUE, cause |-> FirstError(messages), value |-> << >>]
    ELSE [raised |-> FALSE, cause |-> "",
          value |-> <<STALE_RESULT>> \o ConcatToolResults(messages)]

\* filter_tool_result(agent)
filter_tool_result(messages) ==
    IF \E i \in 1..Len(messages) : MessageRaises(messages[i])
    THEN [raised |-> TRUE, cause |-> FirstError(messages), value |-> << >>]
    ELSE [raised |-> FALSE, cause |-> "", value |-> ConcatToolResults(messages)]

\* what one tool result assigns to reference_text (lines 205-213), None when nothing
ReferenceCandidate(tool_result) ==
    IF ~IsDict(tool_result) \/ ~HasKey(tool_result, "content") THEN None
    ELSE LET c == tool_result.content
         IN  IF c.t = "list"
             THEN LET texts == SelectSeq(c.v, LAMBDA item : HasKey(item, "text"))
                  IN  IF texts = << >> THEN None ELSE Str(texts[1].text)
             ELSE IF c.t = "str" THEN c
             ELSE None

\* the loop of lines 203-215: stop at the first truthy reference, else keep the last assigned
RECURSIVE ExtractReference(_, _)
ExtractReference(tool_results, reference_text) ==
    IF tool_results = << >> THEN reference_text
    ELSE LET c   == ReferenceCandidate(Head(tool_results))
             now == IF c = None THEN reference_text ELSE c
         IN  IF Truthy(now) THEN now ELSE ExtractReference(Tail(tool_results), now)

---------------------------------------------------------------------------
(* Request bodies *)

\* one text per alias, so that the alias a text came from stays visible
TEXT_CONTENT == <<"wae">>

TEXT_INPUTTEXT == <<"da">>

TEXT_INPUT == <<"mwo", "ya">>

TEXT_USER_INPUT == <<"da", "da">>

JsonObject(content, inputText, input, user_input, user_id, record_date, current_date) ==
    [kind |-> "object", content |-> content, inputText |-> inputText, input |-> input,
     user_input |-> user_input, user_id |-> user_id, record_date |-> record_date,
     current_date |-> current_date]

\* a body request.json() cannot decode
InvalidJson == [kind |-> "invalid"]

\* a body that decodes to a JSON array: it has no .get
JsonArray == [kind |-> "array"]

\* every combination of the four aliases being absent/null, "" or a text
BodiesByAlias ==
    { JsonObject(c, it, i, ui, Str(<<"u1">>), None, Str(<<"2024-01-15">>)) :
        c \in {None, Str(<< >>), Str(TEXT_CONTENT)},
        it \in {None, Str(<< >>), Str(TEXT_INPUTTEXT)},
        i \in {None, Str(<< >>), Str(TEXT_INPUT)},
        ui \in {None, Str(<< >>), Str(TEXT_USER_INPUT)} }

\* every combination of user_id, record_date and current_date, for a question and a number
BodiesByContext ==
    { JsonObject(c, None, None, None, uid, rd, cd) :
        c \in {Str(<<"mwo", "ya", "?">>), Int5},
        uid \in {None, Str(<<"u1">>)},
        rd \in {None, Str(<< >>), Str(<<"2024-01-14">>)},
        cd \in {None, Str(<<"2024-01-15">>)} }

Bodies == BodiesByAlias \cup BodiesByContext \cup {InvalidJson, JsonArray}

\* no body is being observed (the server draws a body for each request as it is read)
NoBody == [kind |-> "none"]

\* the body is a JSON object none of whose aliases holds anything but null or ""
InputMissing(b) ==
    /\ b.kind = "object"
    /\ \A v \in {b.content, b.inputText, b.input, b.user_input} : v = None \/ v = Str(<< >>)

---------------------------------------------------------------------------
(* JSON texts and json.loads / json.dumps *)

(* A text handed to the parser is a sequence of tokens: braces, brackets, colon,   *)
(* comma, the double quote, the backslash, the digit 1, white space, the code      *)
(* fence (three backticks) and whole words.                                        *)

QUOTE == "\""

BACKSLASH == "\\"

\* the three backticks that open and close a fenced block
FENCE == "<fence>"

Whitespace == {" ", "\n"}

\* a run of opening brackets longer than the interpreter's recursion limit
DEEP == "<deep>"

PyBool(b) == [t |-> "bool", b |-> b]

\* the int written with n digits 1
PyInt(n) == [t |-> "int", n |-> n]

\* a dict: its items in insertion order, the keys being distinct str
PyDict(items) == [t |-> "dict", items |-> items]

Item(k, v) == [k |-> k, v |-> v]

\* d[k] = v: a key already present keeps its place
DictSet(items, k, v) ==
    IF \E i \in 1..Len(items) : items[i].k = k
    THEN [i \in 1..Len(items) |-> IF items[i].k = k THEN Item(k, v) ELSE items[i]]
    ELSE Append(items, Item(k, v))

RECURSIVE Flatten(_)
Flatten(seqs) == IF seqs = << >> THEN << >> ELSE Head(seqs) \o Flatten(Tail(seqs))

\* sep.join(parts)
RECURSIVE Join(_, _)
Join(parts, sep) ==
    IF parts = << >> THEN << >>
    ELSE IF Len(parts) = 1 THEN parts[1]
    ELSE parts[1] \o sep \o Join(Tail(parts), sep)

\* how json.dumps writes one character of a str
EscapeChar(c) ==
    IF c = QUOTE THEN <<BACKSLASH, QUOTE>>
    ELSE IF c = BACKSLASH THEN <<BACKSLASH, BACKSLASH>>
    ELSE IF c = "\n" THEN <<BACKSLASH, "n">>
    ELSE <<c>>

DumpsString(chars) ==
    <<QUOTE>> \o Flatten([i \in 1..Len(chars) |-> EscapeChar(chars[i])]) \o <<QUOTE>>

\* json.dumps(value), with its default separators ", " and ": "
RECURSIVE json_dumps(_)
json_dumps(value) ==
    CASE value.t = "None" -> <<"null">>
      [] value.t = "bool" -> IF value.b THEN <<"true">> ELSE <<"false">>
      [] value.t = "int"  -> [i \in 1..value.n |-> "1"]
      [] value.t = "str"  -> DumpsString(value.s)
      [] value.t = "list" ->
            <<"[">> \o Join([i \in 1..Len(value.v) |-> json_dumps(value.v[i])], <<",", " ">>)
                    \o <<"]">>
      [] value.t = "dict" ->
            <<"{">> \o Join([i \in 1..Len(value.items) |->
                               DumpsString(value.items[i].k) \o <<":", " ">>
                                 \o json_dumps(value.items[i].v)], <<",", " ">>)
                    \o <<"}">>

\* what a backslash followed by this token stands for inside a JSON string; a word is
\* read by its first letter (\t, \n, \f)
Escapes ==
    [tok \in {QUOTE, BACKSLASH, "n", "type", "true", "null", "false"} |->
        CASE tok = QUOTE -> <<QUOTE>>
          [] tok = BACKSLASH -> <<BACKSLASH>>
          [] tok = "n" -> <<"\n">>
          [] tok = "type" -> <<"\t", "ype">>
          [] tok = "true" -> <<"\t", "rue">>
          [] tok = "null" -> <<"\n", "ull">>
          [] tok = "false" -> <<"\f", "alse">>]

\* the decoder stopped with JSONDecodeError
DecodeError == [ok |-> FALSE, value |-> None, pos |-> 0]

\* the decoder stopped with RecursionError, which is not a JSONDecodeError
RecursionError == [ok |-> FALSE, value |-> Str(<<"RecursionError">>), pos |-> 0]

Decoded(value, pos) == [ok |-> TRUE, value |-> value, pos |-> pos]

\* the first position from i on that holds no white space
RECURSIVE SkipWhitespace(_, _)
SkipWhitespace(text, i) ==
    IF i <= Len(text) /\ text[i] \in Whitespace THEN SkipWhitespace(text, i + 1) ELSE i

\* the end of the run of digits that starts at i
RECURSIVE SkipDigits(_, _)
SkipDigits(text, i) ==
    IF i <= Len(text) /\ text[i] = "1" THEN SkipDigits(text, i + 1) ELSE i

\* the str whose opening quote is before position i
RECURSIVE ScanString(_, _, _)
ScanString(text, i, acc) ==
    IF i > Len(text) THEN DecodeError
    ELSE IF text[i] = QUOTE THEN Decoded(Str(acc), i + 1)
    ELSE IF text[i] = BACKSLASH
    THEN IF i + 1 <= Len(text) /\ text[i + 1] \in DOMAIN Escapes
         THEN ScanString(text, i + 2, acc \o Escapes[text[i + 1]])
         ELSE DecodeError
    ELSE IF text[i] = "\n" THEN DecodeError
    ELSE ScanString(text, i + 1, Append(acc, text[i]))

RECURSIVE ParseValue(_, _), ParseElements(_, _, _), ParseMembers(_, _, _)
\* the JSON value that starts at position i
ParseValue(text, i) ==
    IF i > Len(text) THEN DecodeError
    ELSE CASE text[i] = "null"  -> Decoded(None, i + 1)
           [] text[i] = "true"  -> Decoded(PyBool(TRUE), i + 1)
           [] text[i] = "false" -> Decoded(PyBool(FALSE), i + 1)
           [] text[i] = "1"     -> Decoded(PyInt(SkipDigits(text, i) - i), SkipDigits(text, i))
           [] text[i] = QUOTE   -> ScanString(text, i + 1, << >>)
           [] text[i] = DEEP    -> RecursionError
           [] text[i] = "["     ->
                LET j == SkipWhitespace(text, i + 1)
                IN  IF j <= Len(text) /\ text[j] = "]"
                    THEN Decoded(PyList(<< >>), j + 1)
                    ELSE ParseElements(text, j, << >>)
           [] text[i] = "{"     ->
                LET j == SkipWhitespace(text, i + 1)
                IN  IF j <= Len(text) /\ text[j] = "}"
                    THEN Decoded(PyDict(<< >>), j + 1)
                    ELSE ParseMembers(text, j, << >>)
           [] OTHER -> DecodeError

\* the rest of an array, from the element at position i
ParseElements(text, i, acc) ==
    LET v == ParseValue(text, i)
        j == SkipWhitespace(text, v.pos)
    IN  IF ~v.ok THEN v
        ELSE IF j > Len(text) THEN DecodeError
        ELSE IF text[j] = "]" THEN Decoded(PyList(Append(acc, v.value)), j + 1)
        ELSE IF text[j] = ","
        THEN ParseElements(text, SkipWhitespace(text, j + 1), Append(acc, v.value))
        ELSE DecodeError

\* the rest of an object, from the key at position i
ParseMembers(text, i, acc) ==
    IF i > Len(text) \/ text[i] # QUOTE THEN DecodeError
    ELSE LET k == ScanString(text, i + 1, << >>)
             c == SkipWhitespace(text, k.pos)
         IN  IF ~k.ok \/ c > Len(text) \/ text[c] # ":" THEN DecodeError
             ELSE LET v    == ParseValue(text, SkipWhitespace(text, c + 1))
                      j    == SkipWhitespace(text, v.pos)
                      acc1 == DictSet(acc, k.value.s, v.value)
                  IN  IF ~v.ok THEN v
                      ELSE IF j > Len(text) THEN DecodeError
                      ELSE IF text[j] = "}" THEN Decoded(PyDict(acc1), j + 1)
                      ELSE IF text[j] = ","
                      THEN ParseMembers(text, SkipWhitespace(text, j + 1), acc1)
                      ELSE DecodeError

\* json.loads(text): one value, white space around it, and nothing else
json_loads(text) ==
    LET v == ParseValue(text, SkipWhitespace(text, 1))
    IN  IF ~v.ok \/ SkipWhitespace(text, v.pos) > Len(text) THEN v ELSE DecodeError

\* text.strip()
RECURSIVE Strip(_)
Strip(text) ==
    IF text = << >> THEN text
    ELSE IF Head(text) \in Whitespace THEN Strip(Tail(text))
    ELSE IF text[Len(text)] \in Whitespace THEN Strip(SubSeq(text, 1, Len(text) - 1))
    ELSE text

NoMatch == [found |-> FALSE, group |-> << >>]

Match(group) == [found |-> TRUE, group |-> group]

Min(S) == CHOOSE x \in S : \A y \in S : x <= y

\* the match of  fence (?:json)? \s* ( \{ .*? \} ) \s* fence  that starts at i: its group
FencedGroupAt(text, i) ==
    IF text[i] # FENCE THEN NoMatch
    ELSE LET a    == IF i + 1 <= Len(text) /\ text[i + 1] = "json" THEN i + 2 ELSE i + 1
             k    == SkipWhitespace(text, a)
             ends == { e \in (k + 1)..Len(text) :
                         /\ text[e] = "}"
                         /\ SkipWhitespace(text, e + 1) <= Len(text)
                         /\ text[SkipWhitespace(text, e + 1)] = FENCE }
         IN  IF k > Len(text) \/ text[k] # "{" \/ ends = {} THEN NoMatch
             ELSE Match(SubSeq(text, k, Min(ends)))

\* line 123: re.search of the fenced block, the leftmost match
FencedGroup(text) ==
    LET starts == { i \in 1..Len(text) : FencedGroupAt(text, i).found }
    IN  IF starts = {} THEN NoMatch ELSE FencedGroupAt(text, Min(starts))

\* the match of  \{ [^{}]* "type" [^{}]* \}  that starts at i
BraceGroupAt(text, i) ==
    LET braces == { j \in (i + 1)..Len(text) : text[j] \in {"{", "}"} }
    IN  IF text[i] # "{" \/ braces = {} THEN NoMatch
        ELSE LET j == Min(braces)
             IN  IF /\ text[j] = "}"
                    /\ \E m \in (i + 1)..(j - 3) :
                         text[m] = QUOTE /\ text[m + 1] = "type" /\ text[m + 2] = QUOTE
                 THEN Match(SubSeq(text, i, j))
                 ELSE NoMatch

\* line 131: re.search of the brace-delimited substring, the leftmost match
BraceGroup(text) ==
    LET starts == { i \in 1..Len(text) : BraceGroupAt(text, i).found }
    IN  IF starts = {} THEN NoMatch ELSE BraceGroupAt(text, Min(starts))

\* lines 140-144
DefaultResponse ==
    PyDict(<< Item(<<"type">>, Str(<<"data">>)),
              Item(<<"content">>, Str(<< >>)),
              Item(<<"message">>, Str(MSG_SAVED)) >>)

\* the call ended with an exception that no handler of the parser names
ParserRaises(cause) == [t |-> "raised", cause |-> cause]

\* try: return json.loads(...)  except json.JSONDecodeError: pass
Attempt(result, otherwise) ==
    IF result.ok THEN result.value
    ELSE IF result = DecodeError THEN otherwise
    ELSE ParserRaises(result.value)

\* mutation: the brace-delimited substring is tried before the text as a whole
parse_json_response_brace_first(text_in) ==
    LET text  == Strip(text_in)
        block == FencedGroup(text)
        brace == BraceGroup(text)
        last  == IF block.found
                 THEN Attempt(json_loads(block.group), DefaultResponse)
                 ELSE DefaultResponse
        rest  == Attempt(json_loads(text), last)
    IN  IF brace.found THEN Attempt(json_loads(brace.group), rest) ELSE rest

\* mutation: the fenced block is never searched for
parse_json_response_without_fenced_stage(text_in) ==
    LET text  == Strip(text_in)
        brace == BraceGroup(text)
        last  == IF brace.found
                 THEN Attempt(json_loads(brace.group), DefaultResponse)
                 ELSE DefaultResponse
    IN  Attempt(json_loads(text), last)

\* _parse_json_response(response_text), for a str
parse_json_response(text_in) ==
    LET text  == Strip(text_in)
        block == FencedGroup(text)
        brace == BraceGroup(text)
        last  == IF brace.found
                 THEN Attempt(json_loads(brace.group), DefaultResponse)
                 ELSE DefaultResponse
        rest  == IF block.found THEN Attempt(json_loads(block.group), last) ELSE last
    IN  Attempt(json_loads(text), rest)

\* the parser has not been called yet
NotCalled == [t |-> "not called"]

\* the values given to the three fields of the objects that are serialised
TypeValues == {Str(<<"data">>), Str(<<"answer">>), None, PyInt(2)}

ContentValues ==
    { Str(<< >>), Str(<<"a", QUOTE, "b">>), Str(<<BACKSLASH, "n">>),
      Str(<<"a", "\n", "b">>), Str(<<"{", QUOTE, "type", QUOTE, "}">>),
      Str(<<FENCE, "json">>),
      PyList(<<Str(<<"a">>), PyInt(1), PyBool(TRUE)>>),
      PyDict(<< >>), PyDict(<<Item(<<"type">>, Str(<<"answer">>))>>) }

MessageValues == {Str(<<"saved">>), Str(<< >>), None}

\* JSON objects that have the keys type, content and message, in two key orders, with
\* and without a further key
RoundTripObjects ==
    { PyDict(<<Item(<<"type">>, ty), Item(<<"content">>, c), Item(<<"message">>, m)>>
               \o extra) :
        ty \in TypeValues, c \in ContentValues, m \in MessageValues,
        extra \in {<< >>, <<Item(<<"reference">>, Str(<<"ref">>))>>} }
    \cup { PyDict(<<Item(<<"message">>, m), Item(<<"content">>, c), Item(<<"type">>, ty)>>) :
             ty \in TypeValues, c \in ContentValues, m \in MessageValues }

\* the serialisation of each of them
RoundTripTexts == [obj \in RoundTripObjects |-> json_dumps(obj)]

\* a str that holds a closing brace followed by a code fence
BRACE_THEN_FENCE == Str(<<"use", " ", "}", FENCE>>)

\* the objects a model writes inside a fenced block
FencedObjects ==
    { PyDict(<<Item(<<"type">>, ty), Item(<<"content">>, c), Item(<<"message">>, m)>>) :
        ty \in {Str(<<"answer">>), Str(<<"data">>)},
        c \in ContentValues \cup {Str(<<"x">>), BRACE_THEN_FENCE},
        m \in {Str(<<"m">>)} }

\* the tag after the opening fence, and the white space around the object
FenceTags == {<<"json">>, << >>}

FenceGaps == {<<"\n">>, << >>}

\* prose, a fenced block holding the serialised object, prose
FencedText(obj, tag, gap) ==
    <<"prefix", " ", "text", " ", FENCE>> \o tag \o gap \o json_dumps(obj) \o gap
        \o <<FENCE, " ", "suffix">>

\* an object without nesting, as the third stage can find it
FlatObject ==
    PyDict(<<Item(<<"type">>, Str(<<"answer">>)), Item(<<"content">>, Str(<<"x">>)),
             Item(<<"message">>, Str(<<"m">>))>>)

\* texts that are JSON, but not an object with the three fields
OtherJsonTexts ==
    { <<"1">>, <<"null">>, <<"true">>, <<"[", "1", "]">>, <<"{", "}">>,
      json_dumps(Str(<<"a">>)),
      json_dumps(PyDict(<<Item(<<"type">>, Str(<<"data">>))>>)),
      <<" ", "\n">> \o json_dumps(FlatObject) \o <<"\n">> }

\* texts that are not JSON as a whole
ProseTexts ==
    { << >>,
      <<"not", " ", "json", " ", "at", " ", "all">>,
      <<"prefix", " ">> \o json_dumps(FlatObject) \o <<" ", "suffix">>,
      <<FENCE, "{", "oops", "}", FENCE, " ">> \o json_dumps(FlatObject),
      <<FENCE, "json", " ", "[", "1", "]", FENCE, " ">> \o json_dumps(FlatObject),
      <<"see", " ", "{", QUOTE, "type", QUOTE, " ", "oops", "}">>,
      <<"see", " ", "{", QUOTE, "type", QUOTE, ":", " ", QUOTE, "answer", QUOTE, "}">>,
      <<"see", " ", "{", QUOTE, "kind", QUOTE, ":", " ", "1", "}">>,
      <<FENCE, "json", "\n", "{", "oops", "}", "\n", FENCE>> }

\* texts nested more deeply than the decoder can follow
DeepTexts ==
    { <<DEEP>>,
      <<"prefix", " ", FENCE, "{", QUOTE, "type", QUOTE, ":", " ", DEEP, "}", FENCE>>,
      <<"prefix", " ", "{", QUOTE, "type", QUOTE, ":", " ", DEEP, "}">> }

\* the texts the parser is called with
ParserTexts ==
    { RoundTripTexts[obj] : obj \in RoundTripObjects }
      \cup { FencedText(obj, tag, gap) :
                obj \in FencedObjects, tag \in FenceTags, gap \in FenceGaps }
      \cup OtherJsonTexts \cup ProseTexts \cup DeepTexts

---------------------------------------------------------------------------
(* Tool-result extraction on arbitrary message histories *)

\* longest history handed to the extraction functions
MaxMessages == 2

\* m.get("content", []) of line 158, gone through as by IterBlocks
OrchestraBlocks(m) == IF HasKey(m, "content") THEN IterBlocks(m.content) ELSE << >>

\* lines 159-162: every block that carries a toolResult gives its own toolResult
OrchestraToolResults(m) ==
    LET hits == SelectSeq(OrchestraBlocks(m), LAMBDA b : HasKey(b, "toolResult"))
    IN  [j \in 1..Len(hits) |-> hits[j].toolResult]

\* lines 165-172: the values one tool result assigns to reference_text, in order
JsonReferences(tool_result) ==
    IF IsDict(tool_result) /\ HasKey(tool_result, "content") /\ tool_result.content.t = "list"
    THEN LET items == SelectSeq(tool_result.content.v,
                                LAMBDA item : /\ IsDict(item)
                                              /\ HasKey(item, "json")
                                              /\ IsDict(item.json)
                                              /\ HasKey(item.json, "reference"))
         IN  [i \in 1..Len(items) |-> items[i].json.reference]
    ELSE << >>

\* _extract_tool_results(agent): the loop over a content that is None and the
\* len(reference_text) of line 173 on a reference that is no str raise TypeError
extract_tool_results(messages) ==
    LET results == Flatten([i \in 1..Len(messages) |-> OrchestraToolResults(messages[i])])
        refs    == Flatten([i \in 1..Len(results) |-> JsonReferences(results[i])])
    IN  IF \/ \E i \in 1..Len(messages) :
                 HasKey(messages[i], "content") /\ messages[i].content = None
           \/ \E i \in 1..Len(refs) : refs[i].t # "str"
        THEN [raised |-> TRUE, cause |-> "TypeError", tool_results |-> << >>,
              reference |-> None]
        ELSE [raised |-> FALSE, cause |-> "", tool_results |-> results,
              reference |-> IF refs = << >> THEN None ELSE refs[Len(refs)]]

\* question/agent.py lines 199-215: filter_tool_result, then the reference loop
qa_extraction(messages) ==
    LET tr == filter_tool_result(messages)
    IN  IF tr.raised
        THEN [raised |-> TRUE, cause |-> tr.cause, tool_results |-> << >>, reference |-> None]
        ELSE [raised |-> FALSE, cause |-> "", tool_results |-> tr.value,
              reference |-> ExtractReference(tr.value, None)]

\* tool results: well formed, and malformed in the ways a history can be
TR_HELLO == RetrieveResult(1, <<"hello">>)

TR_SECOND == RetrieveResult(2, REF2)

TR_NO_CONTENT == [toolUseId |-> 3, status |-> "error"]

TR_STR_CONTENT == [toolUseId |-> 4, status |-> "success", content |-> Str(<<"plain">>)]

JsonBlock(data) == [json |-> data]

TR_JSON_REFERENCE ==
    [toolUseId |-> 5, status |-> "success",
     content |-> PyList(<<JsonBlock([response |-> Str(<<"answer_1">>),
                                     reference |-> Str(<<"ref_json">>)])>>)]

TR_JSON_TEXT ==
    [toolUseId |-> 6, status |-> "success",
     content |-> PyList(<<JsonBlock([text |-> <<"nested">>])>>)]

TR_JSON_NULL_REFERENCE ==
    [toolUseId |-> 7, status |-> "success",
     content |-> PyList(<<JsonBlock([reference |-> None])>>)]

TR_TWO_TEXTS ==
    [toolUseId |-> 8, status |-> "success",
     content |-> PyList(<<TextBlock(REF1), TextBlock(REF2)>>)]

\* messages: well formed, and malformed in the ways a history can be
MessageShapes ==
    { Message("assistant", <<TextBlock(<<"final">>)>>),
      Message("user", <<ToolResultBlock(TR_HELLO)>>),
      Message("user", <<ToolResultBlock(TR_HELLO), ToolResultBlock(TR_SECOND)>>),
      Message("user", <<TextBlock(<<"note">>), ToolResultBlock(TR_HELLO)>>),
      [role |-> "user"],
      [role |-> "user", content |-> None],
      [role |-> "user", content |-> Str(<<"plain">>)],
      Message("user", <<ToolResultBlock(TR_NO_CONTENT)>>),
      Message("user", <<ToolResultBlock(TR_STR_CONTENT)>>),
      Message("user", <<ToolResultBlock(TR_JSON_REFERENCE)>>),
      Message("user", <<ToolResultBlock(TR_JSON_TEXT)>>),
      Message("user", <<ToolResultBlock(TR_JSON_NULL_REFERENCE)>>),
      Message("user", <<ToolResultBlock(TR_TWO_TEXTS)>>) }

\* the histories the extraction functions are called with
ExtractionHistories ==
    UNION { [1..n -> MessageShapes] : n \in 1..MaxMessages }

\* neither extraction function has been called yet
NothingExtracted == [qa |-> NotCalled, orchestra |-> NotCalled]

---------------------------------------------------------------------------
(* Frames *)

\* a request slot before a request arrives
IdleFrame ==
    [pc |-> "idle", missing |-> FALSE,
     user_input |-> None, user_id |-> None, current_date |-> None,
     agent |-> None, response |-> None, eval_site |-> "",
     result |-> None, http |-> None,
     qa_calls |-> << >>, eval_calls |-> << >>, eval_reports |-> << >>,
     orch_calls |-> 0, eval_failed |-> FALSE]

\* d.get(k), for the dicts modelled as records
DictGet(d, k, default) == IF HasKey(d, k) THEN d[k] ELSE default

OrchestrationResult(type, content, message) ==
    [type |-> type, content |-> content, message |-> message]

JSONResponse(status_code, content) == [status_code |-> status_code, content |-> content]

ErrorContent(message) == OrchestrationResult("error", << >>, message)

---------------------------------------------------------------------------
(* run_evaluation, as seen from its two call sites *)

\* EvaluationConfig().enabled: os.getenv("EVALUATION_ENABLED", "false").lower() == "true"
EvaluationEnabled == environ.EVALUATION_ENABLED = "true"

\* how an enabled evaluation ends: labels uploaded, or result.error set by one of the
\* except clauses / the empty-spans return
EvalOutcomes == {"ok", "ImportError", "No spans found in Phoenix", "ServiceError"}

\* evaluation.py line 91, reached once spans were found:
\* os.environ['AWS_DEFAULT_REGION'] = os.getenv("AWS_REGION", "ap-northeast-2")
SetDefaultRegion(env) == [env EXCEPT !.AWS_DEFAULT_REGION = env.AWS_REGION]

\* the arguments of one run_evaluation call, tagged with the call site
EvalCall(site, input_text, output_text, reference_text) ==
    [site |-> site, input_text |-> input_text, output_text |-> output_text,
     reference_text |-> reference_text]

---------------------------------------------------------------------------
(* run_evaluation, step by step *)

\* EvaluationConfig with its defaults hallucination_check = relevance_check = True
EvaluationConfig(enabled, relevance_check, hallucination_check) ==
    [enabled |-> enabled, relevance_check |-> relevance_check,
     hallucination_check |-> hallucination_check]

\* lines 49-50: without a config argument the flag comes from the environment
ConfigOf(config, env) ==
    IF config = None THEN EvaluationConfig(env.EVALUATION_ENABLED = "true", TRUE, TRUE)
    ELSE config

\* the steps of the try block that can fail, in the order they run
EvalSteps ==
    <<"import", "get_spans", "bedrock_model", "relevance_run", "relevance_upload",
      "hallucination_run", "hallucination_upload">>

\* what the services do during one call: every step succeeds, Phoenix has no span, or
\* one step raises
EvalScenarios == {"none", "no_spans"} \cup {EvalSteps[i] : i \in 1..Len(EvalSteps)}

\* the steps an enabled evaluation runs with this config (lines 102 and 121)
StepsOf(config) ==
    SelectSeq(EvalSteps,
              LAMBDA step :
                  /\ step \in {"relevance_run", "relevance_upload"} => config.relevance_check
                  /\ step \in {"hallucination_run", "hallucination_upload"}
                        => config.hallucination_check)

\* the service a step talks to, "" for a step that stays in the process
ServiceOf(step) ==
    CASE step \in {"get_spans", "relevance_upload", "hallucination_upload"} -> "phoenix"
      [] step \in {"relevance_run", "hallucination_run"} -> "bedrock"
      [] OTHER -> ""

\* EvaluationResult and how the call ended; contacts holds, in order, the service of
\* every step that was started and, for a judge run, the reference handed to it
EvaluationResult(error, contacts, region_set) ==
    [raised |-> FALSE, error |-> error, contacts |-> contacts, region_set |-> region_set]

\* the reference column when no reference was retrieved (line 126)
NO_INFO == <<"no_information">>

\* lines 98 and 126: the reference the relevance and the hallucination judge are given
JudgedReference(step, reference_text) ==
    IF Truthy(reference_text) THEN reference_text.s
    ELSE IF step = "relevance_run" THEN << >>
    ELSE NO_INFO

\* mutation: only the except clause for ImportError is there
EvalExceptImportErrorOnly(step, contacts, region_set) ==
    IF step = "import"
    THEN EvaluationResult(Str(<<"ImportError: ", step>>), contacts, region_set)
    ELSE [raised |-> TRUE, error |-> None, contacts |-> contacts, region_set |-> region_set]

\* lines 150-156: the two except clauses put the failure of a step into result.error
EvalExcept(step, contacts, region_set) ==
    IF step = "import"
    THEN EvaluationResult(Str(<<"ImportError: ", step>>), contacts, region_set)
    ELSE EvaluationResult(Str(<<step, " failed">>), contacts, region_set)

\* the services contacted by the steps, in order
RECURSIVE ContactsOf(_, _)
ContactsOf(steps, reference_text) ==
    IF steps = << >> THEN << >>
    ELSE LET step == Head(steps)
             here == IF ServiceOf(step) = "" THEN << >>
                     ELSE IF ServiceOf(step) = "bedrock"
                     THEN <<[service |-> "bedrock",
                             reference |-> JudgedReference(step, reference_text)]>>
                     ELSE <<[service |-> "phoenix", reference |-> << >>]>>
         IN  here \o ContactsOf(Tail(steps), reference_text)

\* the steps run up to and including the first one for which stop holds
RECURSIVE RunUntil(_, _)
RunUntil(steps, stop) ==
    IF steps = << >> THEN << >>
    ELSE IF Head(steps) = stop THEN <<Head(steps)>>
    ELSE <<Head(steps)>> \o RunUntil(Tail(steps), stop)

\* run_evaluation(input_text, output_text, reference_text, config) while the services
\* behave as in `scenario`
run_evaluation(reference_text, config_arg, scenario, env) ==
    LET config == ConfigOf(config_arg, env)
        steps  == StepsOf(config)
        last   == IF scenario = "no_spans" THEN "get_spans" ELSE scenario
        ran    == RunUntil(steps, last)
        \* line 91 is reached once the spans were found
        region == \E i \in 1..Len(ran) : ran[i] = "bedrock_model"
        failed == /\ scenario \notin {"none", "no_spans"}
                  /\ \E i \in 1..Len(ran) : ran[i] = scenario
    IN  IF ~config.enabled
        THEN EvaluationResult(Str(<<"Evaluation disabled">>), << >>, FALSE)
        ELSE IF scenario = "no_spans"
        THEN EvaluationResult(Str(<<"No spans found in Phoenix">>), ContactsOf(ran, reference_text), FALSE)
        ELSE IF failed THEN EvalExcept(scenario, ContactsOf(ran, reference_text), region)
        ELSE EvaluationResult(None, ContactsOf(ran, reference_text), region)

\* the config arguments a caller can pass
EvalConfigs ==
    {None} \cup { EvaluationConfig(e, r, h) : e \in BOOLEAN, r \in BOOLEAN, h \in BOOLEAN }

\* the arguments of the calls that are made directly
EvalInputs ==
    [config : EvalConfigs, scenario : EvalScenarios,
     reference_text : {None, Str(<< >>), Str(REF1)}]

---------------------------------------------------------------------------
(* orchestrate_request, Steps 3 and 4 *)

\* mutation: the answer is returned under the type of the short-circuit result
RouterFinishAsData(q) ==
    [q EXCEPT !.pc = "orch_return",
              !.eval_site = "",
              !.result = OrchestrationResult("data",
                             DictGet(q.response, "response", << >>), MSG_ANSWERED)]

\* mutation: the result carries the collaborator's reference along
RouterFinishWithReference(q) ==
    [q EXCEPT !.pc = "orch_return",
              !.eval_site = "",
              !.result = [type |-> "answer",
                          content |-> DictGet(q.response, "response", << >>),
                          message |-> MSG_ANSWERED,
                          reference |-> DictGet(q.response, "reference", None)]]

\* lines 259-264: the answer result is ready to be returned
RouterFinish(q) ==
    [q EXCEPT !.pc = "orch_return",
              !.eval_site = "",
              !.result = OrchestrationResult("answer",
                             DictGet(q.response, "response", << >>), MSG_ANSWERED)]

\* lines 246-257: run_evaluation(input_text=user_input, output_text=answer_content,
\* reference_text=reference_text); a disabled evaluation returns at once
RouterEvaluate(q) ==
    LET call == EvalCall("router", q.user_input.s,
                         DictGet(q.response, "response", << >>),
                         DictGet(q.response, "reference", None))
        q1   == [q EXCEPT !.eval_calls = Append(@, call)]
    IN  IF EvaluationEnabled
        THEN [q1 EXCEPT !.pc = "eval_running", !.eval_site = "router"]
        ELSE RouterFinish([q1 EXCEPT !.eval_reports = Append(@, "Evaluation disabled")])

\* mutation: the guard `if answer_content:` is missing
RouterAfterQAAlways(q) == RouterEvaluate(q)

\* lines 241-245: evaluate only a non-empty answer
RouterAfterQA(q) ==
    IF Len(DictGet(q.response, "response", << >>)) > 0
    THEN RouterEvaluate(q)
    ELSE RouterFinish(q)

---------------------------------------------------------------------------
(* generate_auto_response *)

\* return of the collaborator into line 235 of the router
QAReturn(q, result) == RouterAfterQA([q EXCEPT !.response = result, !.eval_site = ""])

\* question/agent.py lines 223-241: the collaborator's own evaluation of a non-empty answer
QAEvaluate(q, result) ==
    LET call == EvalCall("qa", q.user_input.s, result.response, result.reference)
        q1   == [q EXCEPT !.eval_calls = Append(@, call), !.response = result]
    IN  IF Len(result.response) = 0 THEN QAReturn(q, result)
        ELSE IF EvaluationEnabled
        THEN [q1 EXCEPT !.pc = "eval_running", !.eval_site = "qa"]
        ELSE QAReturn([q1 EXCEPT !.eval_reports = Append(@, "Evaluation disabled")], result)

\* question/agent.py lines 243-249: the except clause turns the failure into a response
QAExcept(q, cause) == QAReturn(q, [response |-> AnswerError(cause)])

\* mutation: an evaluation that reports an error is treated as a failure of the answer,
\* as if it had been raised into the enclosing try
AfterEvaluationPropagating(q, outcome) ==
    IF outcome = "ok"
    THEN IF q.eval_site = "qa" THEN QAReturn(q, q.response) ELSE RouterFinish(q)
    ELSE IF q.eval_site = "qa" THEN QAExcept(q, outcome)
    ELSE [q EXCEPT !.pc = "orch_return", !.eval_site = "",
                   !.result = OrchestrationResult("answer", << >>, AnswerError(outcome))]

\* orchestra_agent.py lines 252-257 and question/agent.py lines 233-241: whatever the
\* evaluation reported is only printed, and the caller goes on
AfterEvaluation(q, outcome) ==
    IF q.eval_site = "qa" THEN QAReturn(q, q.response) ELSE RouterFinish(q)

\* question/agent.py lines 193-221: after the agent call
QAAfterAgent(q, outcome) ==
    LET q1 == [q EXCEPT !.agent = outcome]
        tr == filter_tool_result(outcome.messages)
    IN  IF outcome.raised THEN QAExcept(q1, outcome.cause)
        ELSE IF tr.raised THEN QAExcept(q1, tr.cause)
        ELSE QAEvaluate(q1, [response |-> outcome.text,
                             reference |-> ExtractReference(tr.value, None)])

\* mutation: user_id and current_date are not passed on
QAArgumentsWithoutContext(user_input, user_id, current_date) ==
    [question |-> user_input, user_id |-> None, current_date |-> None]

\* the arguments the collaborator is called with (orchestra_agent.py lines 235-239)
QAArguments(user_input, user_id, current_date) ==
    [question |-> user_input, user_id |-> user_id, current_date |-> current_date]

\* question/agent.py lines 105-193: up to the blocking call of the agent
QAEnter(q) ==
    LET q1 == [q EXCEPT !.qa_calls =
                   Append(@, QAArguments(q.user_input, q.user_id, q.current_date))]
    IN  IF environ.KNOWLEDGE_BASE_ID = ""
        THEN QAReturn(q1, [response |-> KB_CONFIG_ERROR])
        ELSE [q1 EXCEPT !.pc = "agent_call"]

---------------------------------------------------------------------------
(* orchestrate_request, Steps 1 and 2 *)

\* lines 225-229
DataResult == OrchestrationResult("data", << >>, MSG_SAVED)

\* lines 219-239: user_input[:100] raises TypeError for a number, before the try
OrchestrateEnter(q, user_input, user_id, current_date) ==
    LET q1 == [q EXCEPT !.user_input = user_input, !.user_id = user_id,
                        !.current_date = current_date, !.orch_calls = @ + 1]
    IN  IF user_input.t # "str"
        THEN [q1 EXCEPT !.pc = "orch_raised", !.result = [raised |-> "TypeError"]]
        ELSE IF ~is_likely_question(user_input.s)
        THEN [q1 EXCEPT !.pc = "orch_return", !.result = DataResult]
        ELSE QAEnter(q1)

---------------------------------------------------------------------------
(* process_agent_request *)

\* the response is sent and the handler's frame is gone; what was sent stays on record
Responded(q, response) ==
    [IdleFrame EXCEPT !.pc = "responded", !.missing = q.missing, !.http = response,
                      !.result = IF response.status_code = 200 THEN q.result ELSE None,
                      !.orch_calls = q.orch_calls,
                      !.eval_failed = \E i \in 1..Len(q.eval_reports) :
                                         q.eval_reports[i] # "ok"]

\* mutation: the catch-all re-raises, so that the handler ends without a response
HandlerExceptReraising(q, cause) == [q EXCEPT !.pc = "handler_raised"]

\* mutation: the catch-all answers without status_code, that is with 200
HandlerExceptWithDefaultStatus(q, cause) ==
    Responded(q, JSONResponse(200, ErrorContent(RequestError(cause))))

\* endpoints/agent.py lines 68-82: the catch-all of the handler
HandlerExcept(q, cause) == Responded(q, JSONResponse(500, ErrorContent(RequestError(cause))))

\* mutation: the alias `input` is looked at before `content`
ExtractUserInputInputFirst(body) ==
    PyOr(PyOr(PyOr(body.input, body.content), body.inputText), body.user_input)

\* endpoints/agent.py line 37: content or inputText or input or user_input
ExtractUserInput(body) ==
    PyOr(PyOr(PyOr(body.content, body.inputText), body.input), body.user_input)

\* endpoints/agent.py line 39: record_date or current_date
ExtractCurrentDate(body) == PyOr(body.record_date, body.current_date)

\* mutation: the check is `user_input is None`
InputAbsentIsNone(user_input) == user_input = None

\* endpoints/agent.py line 41: not user_input
InputAbsent(user_input) == ~Truthy(user_input)

\* endpoints/agent.py lines 31-61, once request.json() has completed with `body`
HandleBody(q, body) ==
    IF body.kind = "invalid" THEN HandlerExcept(q, "JSONDecodeError")
    ELSE IF body.kind # "object" THEN HandlerExcept(q, "AttributeError")
    ELSE IF InputAbsent(ExtractUserInput(body))
    THEN Responded(q, JSONResponse(400, ErrorContent(MSG_INPUT_REQUIRED)))
    ELSE LET q1 == OrchestrateEnter(q, ExtractUserInput(body), body.user_id,
                                    ExtractCurrentDate(body))
         IN  IF q1.pc = "orch_raised"
             THEN HandlerExcept(q1, q1.result.raised)
             ELSE q1

---------------------------------------------------------------------------
(* generate_image (POST /agent/image) and run_image_generator *)

\* the Agent constructed by the module code, lines 146-155: it keeps its conversation
\* in .messages from one call to the next
NewAgent == [t |-> "Agent", messages |-> << >>]

\* the import of line 17 of endpoints/image.py failed (image_generator/tools.py:18
\* imports a package that the deployment may lack)
ImportFailed == [t |-> "ImportError"]

ImageBody(content, request, user_id, text, image_base64, record_date) ==
    [kind |-> "object", content |-> content, request |-> request, user_id |-> user_id,
     text |-> text, image_base64 |-> image_base64, record_date |-> record_date]

ImageBodies ==
    { ImageBody(c, rq, None, None, None, None) :
        c \in {None, Str(<< >>), Str(<<"draw">>)}, rq \in {None, Str(<<"save">>)} }
    \cup { ImageBody(Str(<<"draw">>), None, u, t, None, None) :
             u \in {None, Str(<<"u1">>)}, t \in {None, Str(<<"diary">>)} }
    \cup { ImageBody(Str(<<"save">>), None, Str(<<"u1">>), None, Str(<<"b64">>),
                     Str(<<"2024-01-15">>)),
           InvalidJson }

\* run_image_generator lines 178-186: the prompt handed to the agent
ImagePrompt(request, user_id, text, image_base64, record_date) ==
    <<"request: ">> \o request.s
      \o (IF Truthy(user_id) THEN <<"user_id: ">> \o user_id.s ELSE << >>)
      \o (IF Truthy(text) THEN <<"text: ">> \o text.s ELSE << >>)
      \o (IF Truthy(image_base64) THEN <<"image_base64: ">> \o image_base64.s ELSE << >>)
      \o (IF Truthy(record_date) THEN <<"record_date: ">> \o record_date.s ELSE << >>)

\* how image_generator_agent(prompt) ends: it raises, or it returns a result whose
\* text is str(response) and which may expose tool_results
ImageOutcomes ==
    { [raised |-> TRUE, text |-> << >>, tool_results |-> << >>],
      [raised |-> FALSE, text |-> <<"done">>, tool_results |-> << >>],
      [raised |-> FALSE, text |-> <<"done">>,
       tool_results |-> << [success |-> TRUE, image_base64 |-> <<"b64">>] >>] }

\* run_image_generator lines 188-212, after the agent call
ImageResult(outcome) ==
    IF outcome.raised THEN [success |-> FALSE, error |-> <<"AgentError">>]
    ELSE IF outcome.tool_results # << >>
    THEN outcome.tool_results[Len(outcome.tool_results)]
    ELSE [success |-> TRUE, response |-> outcome.text]

\* the messages a call leaves in the session: the prompt, and the reply if there is one
CallMessages(prompt, outcome) ==
    <<Message("user", <<TextBlock(prompt)>>)>>
      \o (IF outcome.raised THEN << >>
          ELSE <<Message("assistant", <<TextBlock(outcome.text)>>)>>)

---------------------------------------------------------------------------
(* The image tools and S3 (image_generator/tools.py, image_generator/agent.py) *)

\* the number of tool calls followed
MaxToolCalls == 2

S3_BUCKET == "knowledge-base-test-6575574"

\* generate_prompt_with_claude: the model's prompt, or the fallback built from the
\* journal text when invoke_model raises; it never raises and never touches S3
generate_prompt_with_claude(journal_text, claude) ==
    IF claude = "ok"
    THEN [positive_prompt |-> <<"generated prompt">>, negative_prompt |-> "NEGATIVE_PROMPT"]
    ELSE [positive_prompt |-> <<"A realistic documentary-style photo representing: ">>
                                \o journal_text.s,
          negative_prompt |-> "NEGATIVE_PROMPT"]

\* generate_image_with_nova: every failure becomes {success: False, error}
generate_image_with_nova(positive_prompt, nova) ==
    CASE nova = "ok"        -> [success |-> TRUE, image_base64 |-> <<"a", "W", "1", "n">>]
      [] nova = "no_images" -> [success |-> FALSE,
                                error |-> "No images returned from Nova Canvas"]
      [] OTHER              -> [success |-> FALSE, error |-> "nova error"]

\* datetime.fromisoformat(record_date.replace('Z', '+00:00')) for the dates used here:
\* the year, month and day, or no value when the text is not an ISO date
FromIsoFormat(record_date) ==
    IF record_date.s = <<"2024-01-15">> THEN <<"2024", "01", "15">> ELSE << >>

\* datetime.utcnow()
UtcNow == <<"2026", "11", "06">>

\* lines 208-214: the date of the key
KeyDate(record_date) ==
    IF Truthy(record_date) /\ FromIsoFormat(record_date) # << >>
    THEN FromIsoFormat(record_date)
    ELSE UtcNow

\* f"{user_id}"
FormatValue(v) == IF v.t = "str" THEN v.s ELSE <<v.t>>

\* base64.b64decode for the values used here: a str of base64 letters decodes when
\* its length is a multiple of four, and raises otherwise (None raises TypeError)
B64Decodes(image_base64) == image_base64.t = "str" /\ Len(image_base64.s) % 4 = 0

\* the put_object call of lines 226-231
PutObject(s3_key, image_base64) ==
    [Bucket |-> S3_BUCKET, Key |-> s3_key, Body |-> image_base64.s,
     ContentType |-> "image/png"]

\* upload_to_s3: s3 is what S3 does ("no_client": boto3.client raises, "put_fails":
\* put_object raises, "ok"); puts are the put_object calls made.  Every exception
\* leaves the function (line 242)
upload_to_s3(user_id, image_base64, record_date, s3) ==
    LET dt     == KeyDate(record_date)
        s3_key == FormatValue(user_id) \o <<"/history/", dt[1], "/", dt[2], "/", dt[3],
                                            "/image_", "timestamp", ".png">>
        put    == PutObject(s3_key, image_base64)
    IN  CASE s3 = "no_client" ->
               [raised |-> TRUE, cause |-> "client error", puts |-> << >>]
          [] ~B64Decodes(image_base64) ->
               [raised |-> TRUE, cause |-> "b64decode error", puts |-> << >>]
          [] s3 = "put_fails" ->
               [raised |-> TRUE, cause |-> "s3 error", puts |-> <<put>>]
          [] OTHER ->
               [raised |-> FALSE, s3_key |-> s3_key,
                image_url |-> <<"https://", S3_BUCKET, ".s3.">> \o s3_key,
                puts |-> <<put>>]

\* lines 310-319: the call of upload_to_s3 and the outer except
UploadResult(user_id, s3_result) ==
    IF s3_result.raised
    THEN [result |-> [success |-> FALSE, error |-> s3_result.cause],
          puts |-> s3_result.puts]
    ELSE [result |-> [success |-> TRUE, user_id |-> user_id,
                      s3_key |-> s3_result.s3_key, image_url |-> s3_result.image_url],
          puts |-> s3_result.puts]

\* ImageGeneratorTools.generate_image_from_text and its @tool wrapper: the preview
generate_image_from_text(text, claude, nova) ==
    LET prompt_result == generate_prompt_with_claude(text, claude)
        image_result  == generate_image_with_nova(prompt_result.positive_prompt, nova)
    IN  [result |-> IF ~image_result.success
                    THEN [success |-> FALSE, error |-> image_result.error]
                    ELSE [success |-> TRUE, image_base64 |-> image_result.image_base64,
                          prompt |-> [positive |-> prompt_result.positive_prompt,
                                      negative |-> prompt_result.negative_prompt]],
         puts   |-> << >>]

\* mutation: upload_to_s3 is entered whatever the arguments are
upload_image_to_s3_unguarded(user_id, image_base64, record_date, s3) ==
    UploadResult(user_id, upload_to_s3(user_id, image_base64, record_date, s3))

\* ImageGeneratorTools.upload_image_to_s3 and its @tool wrapper
upload_image_to_s3(user_id, image_base64, record_date, s3) ==
    IF ~Truthy(user_id)
    THEN [result |-> [success |-> FALSE, error |-> "user_id is required"],
          puts |-> << >>]
    ELSE IF ~Truthy(image_base64)
    THEN [result |-> [success |-> FALSE, error |-> "image_base64 is required"],
          puts |-> << >>]
    ELSE UploadResult(user_id, upload_to_s3(user_id, image_base64, record_date, s3))

\* ImageGeneratorTools.build_prompt_from_text and its @tool wrapper: the prompt only
build_prompt_from_text(text, claude) ==
    LET prompt_result == generate_prompt_with_claude(text, claude)
    IN  [result |-> [success |-> TRUE,
                     positive_prompt |-> prompt_result.positive_prompt,
                     negative_prompt |-> prompt_result.negative_prompt],
         puts   |-> << >>]

\* ImageGeneratorTools.health_check and its @tool wrapper
health_check ==
    [result |-> [success |-> TRUE, status |-> "ok", service |-> "image-generator-agent",
                 s3_bucket |-> S3_BUCKET, timestamp |-> UtcNow],
     puts   |-> << >>]

\* the arguments the agent hands to the tools
UserIds == {None, Str(<< >>), Str(<<"u1">>)}
ImageBase64s == {None, Str(<< >>), Str(<<"a", "W", "1", "n">>), Str(<<"a">>)}
RecordDates == {None, Str(<<"2024-01-15">>), Str(<<"yesterday">>)}
JournalTexts == {Str(<<"diary">>)}

\* one entry of the record of tool calls
ToolCallEntry(tool, args, outcome) ==
    [tool |-> tool, args |-> args, result |-> outcome.result, puts |-> outcome.puts]

---------------------------------------------------------------------------
(* Actions *)

\* startup_handler: the orchestrator module imports only if question/agent.py and
\* orchestra_agent.py find KNOWLEDGE_BASE_ID and BEDROCK_MODEL_ARN in the configuration
Startup(has_kb, has_arn) ==
    /\ ~started
    /\ started' = TRUE
    /\ IF has_kb /\ has_arn
       THEN /\ orchestrate_request' = "orch"
            /\ environ' = [environ EXCEPT !.KNOWLEDGE_BASE_ID = "kb-id",
                                          !.AWS_REGION = "ap-northeast-2"]
       ELSE UNCHANGED <<orchestrate_request, environ>>
    /\ UNCHANGED <<loop, req, sent, image_generator_agent, response_text, parsed,
                   agent_messages, extracted, eval_input, evaluation, s3_objects, tool_calls>>

\* a client sends a POST /agent; the server schedules process_agent_request for it
Arrive(r) ==
    /\ started
    /\ req[r].pc = "idle"
    /\ \E missing \in BOOLEAN :
         req' = [req EXCEPT ![r] = [@ EXCEPT !.pc = "arrived", !.missing = missing]]
    /\ UNCHANGED <<started, orchestrate_request, environ, loop, sent, image_generator_agent, response_text, parsed,
                   agent_messages, extracted, eval_input, evaluation, s3_objects, tool_calls>>

\* mutation: the handler awaits the body before it looks at the orchestrator reference
HandlerStartReadingBody(r) ==
    /\ started
    /\ req[r].pc = "arrived"
    /\ loop = 0
    /\ req' = [req EXCEPT ![r] = [@ EXCEPT !.pc = "await_json"]]
    /\ UNCHANGED <<started, orchestrate_request, environ, loop, sent, image_generator_agent,
                   response_text, parsed, agent_messages, extracted, eval_input,
                   evaluation, s3_objects, tool_calls>>

\* endpoints/agent.py lines 18-31: the coroutine runs on the event loop up to its await
HandlerStart(r) ==
    /\ started
    /\ req[r].pc = "arrived"
    /\ loop = 0
    /\ req' = [req EXCEPT ![r] =
                 IF orchestrate_request = "None"
                 THEN Responded(@, JSONResponse(500, ErrorContent(MSG_INIT_FAILED)))
                 ELSE [@ EXCEPT !.pc = "await_json"]]
    /\ UNCHANGED <<started, orchestrate_request, environ, loop, sent, image_generator_agent, response_text, parsed,
                   agent_messages, extracted, eval_input, evaluation, s3_objects, tool_calls>>

\* the await of request.json() completes and the coroutine runs on, synchronously,
\* until it responds or blocks inside orchestrate_request
HandlerResume(r) ==
    /\ req[r].pc = "await_json"
    /\ loop = 0
    /\ sent = NoBody
    /\ \E body \in Bodies :
         /\ InputMissing(body) = req[r].missing
         /\ LET q == HandleBody(req[r], body)
            IN  /\ req' = [req EXCEPT ![r] = q]
                /\ loop' = IF q.pc = "responded" THEN 0 ELSE r
    /\ UNCHANGED <<started, orchestrate_request, environ, sent, image_generator_agent, response_text, parsed,
                   agent_messages, extracted, eval_input, evaluation, s3_objects, tool_calls>>

\* the same step for the request whose body is the observed one
HandlerResumeSent(r) ==
    /\ req[r].pc = "await_json"
    /\ loop = 0
    /\ sent # NoBody
    /\ LET q == HandleBody(req[r], sent)
       IN  /\ req' = [req EXCEPT ![r] = q]
           /\ loop' = IF q.pc = "responded" THEN 0 ELSE r
    /\ UNCHANGED <<started, orchestrate_request, environ, sent, image_generator_agent, response_text, parsed,
                   agent_messages, extracted, eval_input, evaluation, s3_objects, tool_calls>>

\* the blocking call auto_response_agent(search_query) ends
AgentReturn(r) ==
    /\ req[r].pc = "agent_call"
    /\ \E outcome \in AgentOutcomes :
         req' = [req EXCEPT ![r] = QAAfterAgent(@, StampSession(outcome, r))]
    /\ UNCHANGED <<started, orchestrate_request, environ, loop, sent, image_generator_agent, response_text, parsed,
                   agent_messages, extracted, eval_input, evaluation, s3_objects, tool_calls>>

\* the blocking body of an enabled run_evaluation ends and control goes back to the
\* caller; a run that got past the Phoenix query has set AWS_DEFAULT_REGION on its way
EvalReturn(r) ==
    /\ req[r].pc = "eval_running"
    /\ \E outcome \in EvalOutcomes, reached_bedrock \in BOOLEAN :
         /\ outcome = "ok" => reached_bedrock
         /\ outcome \in {"ImportError", "No spans found in Phoenix"} => ~reached_bedrock
         /\ environ' = IF reached_bedrock THEN SetDefaultRegion(environ) ELSE environ
         /\ LET q == [req[r] EXCEPT !.eval_reports = Append(@, outcome)]
            IN  req' = [req EXCEPT ![r] = AfterEvaluation(q, outcome)]
    /\ UNCHANGED <<started, orchestrate_request, loop, sent, image_generator_agent, response_text, parsed,
                   agent_messages, extracted, eval_input, evaluation, s3_objects, tool_calls>>

\* orchestrate_request returns its result to its caller
RouterReturn(r) ==
    /\ req[r].pc = "orch_return"
    /\ req' = [req EXCEPT ![r] = [@ EXCEPT !.pc = "orch_done"]]
    /\ UNCHANGED <<started, orchestrate_request, environ, loop, sent, image_generator_agent, response_text, parsed,
                   agent_messages, extracted, eval_input, evaluation, s3_objects, tool_calls>>

\* endpoints/agent.py lines 63-66: JSONResponse(content=result)
HandlerRespond(r) ==
    /\ req[r].pc = "orch_done"
    /\ req' = [req EXCEPT ![r] = Responded(@, JSONResponse(200, @.result))]
    /\ loop' = 0
    /\ UNCHANGED <<started, orchestrate_request, environ, sent, image_generator_agent, response_text, parsed,
                   agent_messages, extracted, eval_input, evaluation, s3_objects, tool_calls>>

\* a client sends a POST /agent/image
ArriveImage(r) ==
    /\ started
    /\ req[r].pc = "idle"
    /\ req' = [req EXCEPT ![r] = [@ EXCEPT !.pc = "image_arrived"]]
    /\ UNCHANGED <<started, orchestrate_request, environ, loop, sent, image_generator_agent, response_text, parsed,
                   agent_messages, extracted, eval_input, evaluation, s3_objects, tool_calls>>

\* endpoints/image.py lines 16-19: the first request imports image_generator.agent,
\* whose module code constructs the Agent; then the coroutine awaits the body
ImageStart(r) ==
    /\ req[r].pc = "image_arrived"
    /\ loop = 0
    /\ \E importable \in BOOLEAN :
         LET module == IF image_generator_agent # None THEN image_generator_agent
                       ELSE IF importable THEN NewAgent ELSE ImportFailed
         IN  /\ image_generator_agent' = module
             /\ req' = [req EXCEPT ![r] =
                          IF module = ImportFailed
                          THEN Responded(@, JSONResponse(500,
                                   [success |-> FALSE, error |-> <<"image_error: ", "ImportError">>]))
                          ELSE [@ EXCEPT !.pc = "image_await_json"]]
    /\ UNCHANGED <<started, orchestrate_request, environ, loop, sent, response_text, parsed,
                   agent_messages, extracted, eval_input, evaluation, s3_objects, tool_calls>>

\* endpoints/image.py lines 19-46 and run_image_generator up to the agent call, which
\* puts the prompt into the agent's messages
ImageResume(r) ==
    /\ req[r].pc = "image_await_json"
    /\ loop = 0
    /\ \E body \in ImageBodies :
         IF body.kind # "object"
         THEN /\ req' = [req EXCEPT ![r] = Responded(@, JSONResponse(500,
                            [success |-> FALSE, error |-> <<"image_error: ", "JSONDecodeError">>]))]
              /\ UNCHANGED <<loop, image_generator_agent>>
         ELSE IF ~Truthy(PyOr(body.content, body.request))
         THEN /\ req' = [req EXCEPT ![r] = Responded(@, JSONResponse(400,
                            [success |-> FALSE, error |-> <<"request_required">>]))]
              /\ UNCHANGED <<loop, image_generator_agent>>
         ELSE LET prompt == ImagePrompt(PyOr(body.content, body.request), body.user_id,
                                        body.text, body.image_base64, body.record_date)
              IN  /\ req' = [req EXCEPT ![r] = [@ EXCEPT !.pc = "image_call",
                                                          !.user_input = Str(prompt)]]
                  /\ image_generator_agent' =
                        [image_generator_agent EXCEPT
                            !.messages = @ \o <<Message("user", <<TextBlock(prompt)>>)>>]
                  /\ loop' = r
    /\ UNCHANGED <<started, orchestrate_request, environ, sent, response_text, parsed,
                   agent_messages, extracted, eval_input, evaluation, s3_objects, tool_calls>>

\* the agent call ends, run_image_generator returns and the endpoint answers (line 48)
ImageReturn(r) ==
    /\ req[r].pc = "image_call"
    /\ \E outcome \in ImageOutcomes :
         /\ image_generator_agent' =
               [image_generator_agent EXCEPT
                   !.messages = @ \o Tail(CallMessages(req[r].user_input.s, outcome))]
         /\ req' = [req EXCEPT ![r] =
                      Responded([@ EXCEPT !.result = ImageResult(outcome)],
                                JSONResponse(200, ImageResult(outcome)))]
    /\ loop' = 0
    /\ UNCHANGED <<started, orchestrate_request, environ, sent, response_text, parsed,
                   agent_messages, extracted, eval_input, evaluation, s3_objects, tool_calls>>

\* generate_auto_response extracts the tool results and the reference (lines 199-215)
FilterToolResultCall ==
    /\ extracted # NotCalled
    /\ extracted.qa = NotCalled
    /\ extracted' = [extracted EXCEPT !.qa = qa_extraction(agent_messages)]
    /\ UNCHANGED <<started, orchestrate_request, environ, loop, req, sent,
                   image_generator_agent, response_text, parsed,
                   agent_messages, eval_input, evaluation, s3_objects, tool_calls>>

\* one call of _extract_tool_results
ExtractToolResultsCall ==
    /\ extracted # NotCalled
    /\ extracted.orchestra = NotCalled
    /\ extracted' = [extracted EXCEPT !.orchestra = extract_tool_results(agent_messages)]
    /\ UNCHANGED <<started, orchestrate_request, environ, loop, req, sent,
                   image_generator_agent, response_text, parsed,
                   agent_messages, eval_input, evaluation, s3_objects, tool_calls>>

\* one direct call of run_evaluation
RunEvaluationCall ==
    /\ eval_input # NotCalled
    /\ evaluation = NotCalled
    /\ LET result == run_evaluation(eval_input.reference_text, eval_input.config,
                                    eval_input.scenario, environ)
       IN  /\ evaluation' = result
           /\ environ' = IF result.region_set THEN SetDefaultRegion(environ) ELSE environ
    /\ UNCHANGED <<started, orchestrate_request, loop, req, sent, image_generator_agent,
                   response_text, parsed, agent_messages, extracted, eval_input,
                   s3_objects, tool_calls>>

\* one tool call of the image agent: the call is recorded, and S3 receives the
\* put_object calls made during it
ToolCalled(tool, args, outcome) ==
    /\ Len(tool_calls) < MaxToolCalls
    /\ tool_calls' = Append(tool_calls, ToolCallEntry(tool, args, outcome))
    /\ s3_objects' = s3_objects \o outcome.puts
    /\ UNCHANGED <<started, orchestrate_request, environ, loop, req, sent,
                   image_generator_agent, response_text, parsed, agent_messages,
                   extracted, eval_input, evaluation>>

GenerateImageFromTextCall ==
    \E text \in JournalTexts, claude \in {"ok", "fails"},
       nova \in {"ok", "no_images", "fails"} :
        ToolCalled("generate_image_from_text", [text |-> text],
                   generate_image_from_text(text, claude, nova))

UploadImageToS3Call ==
    \E user_id \in UserIds, image_base64 \in ImageBase64s, record_date \in RecordDates,
       s3 \in {"ok", "put_fails", "no_client"} :
        ToolCalled("upload_image_to_s3",
                   [user_id |-> user_id, image_base64 |-> image_base64,
                    record_date |-> record_date],
                   upload_image_to_s3(user_id, image_base64, record_date, s3))

BuildPromptFromTextCall ==
    \E text \in JournalTexts, claude \in {"ok", "fails"} :
        ToolCalled("build_prompt_from_text", [text |-> text],
                   build_prompt_from_text(text, claude))

HealthCheckCall ==
    ToolCalled("health_check", [text |-> None], health_check)

\* one call of _parse_json_response
ParseCall ==
    /\ parsed = NotCalled
    /\ parsed' = parse_json_response(response_text)
    /\ UNCHANGED <<started, orchestrate_request, environ, loop, req, sent,
                   image_generator_agent, response_text,
                   agent_messages, extracted, eval_input, evaluation, s3_objects, tool_calls>>

---------------------------------------------------------------------------
(* Specifications *)

\* the process before startup_handler; EVALUATION_ENABLED comes from the deployment
Init ==
    /\ started = FALSE
    /\ orchestrate_request = "None"
    /\ \E e \in {"true", "false"} :
         environ = [KNOWLEDGE_BASE_ID |-> "", AWS_REGION |-> "us-east-1",
                    EVALUATION_ENABLED |-> e, AWS_DEFAULT_REGION |-> ""]
    /\ loop = 0
    /\ req = [r \in Reqs |-> IdleFrame]
    /\ sent = NoBody
    /\ image_generator_agent = None
    /\ response_text = << >>
    /\ parsed = NotCalled
    /\ agent_messages = << >>
    /\ extracted = NotCalled
    /\ eval_input = NotCalled
    /\ evaluation = NotCalled
    /\ s3_objects = << >>
    /\ tool_calls = << >>

Next ==
    \/ \E has_kb, has_arn \in BOOLEAN : Startup(has_kb, has_arn)
    \/ \E r \in Reqs : Arrive(r)
    \/ \E r \in Reqs : HandlerStart(r)
    \/ \E r \in Reqs : HandlerResume(r)
    \/ \E r \in Reqs : AgentReturn(r)
    \/ \E r \in Reqs : EvalReturn(r)
    \/ \E r \in Reqs : RouterReturn(r)
    \/ \E r \in Reqs : HandlerRespond(r)

\* the server: start-up, then concurrent /agent requests
Spec == Init /\ [][Next]_vars

\* the server under the scheduling the claim about termination supposes: the event
\* loop runs a coroutine that is ready, and every collaborator call (the agent, the
\* evaluation) that was started returns or raises
SpecLive ==
    /\ Spec
    /\ \A r \in Reqs :
          /\ WF_vars(HandlerStart(r))
          /\ WF_vars(HandlerResume(r))
          /\ WF_vars(AgentReturn(r))
          /\ WF_vars(EvalReturn(r))
          /\ WF_vars(RouterReturn(r))
          /\ WF_vars(HandlerRespond(r))

\* characters of the user texts enumerated for a direct call
Alphabet == {"?", "mwo", "ya", "da"}

Texts == UNION { [1..n -> Alphabet] : n \in 0..MaxLen }

\* a direct call orchestrate_request(user_input, user_id, current_date) with a str,
\* in a process whose orchestrator module has loaded
InitRouter ==
    /\ started = TRUE
    /\ orchestrate_request = "orch"
    /\ \E e \in {"true", "false"} :
         environ = [KNOWLEDGE_BASE_ID |-> "kb-id", AWS_REGION |-> "ap-northeast-2",
                    EVALUATION_ENABLED |-> e, AWS_DEFAULT_REGION |-> ""]
    /\ loop = 1
    /\ \E text \in Texts, user_id \in {None, Str(<<"u1">>)},
          current_date \in {None, Str(<<"2024-01-15">>)} :
         req = [r \in Reqs |->
                  IF r = 1
                  THEN OrchestrateEnter(IdleFrame, Str(text), user_id, current_date)
                  ELSE IdleFrame]
    /\ sent = NoBody
    /\ image_generator_agent = None
    /\ response_text = << >>
    /\ parsed = NotCalled
    /\ agent_messages = << >>
    /\ extracted = NotCalled
    /\ eval_input = NotCalled
    /\ evaluation = NotCalled
    /\ s3_objects = << >>
    /\ tool_calls = << >>

NextRouter ==
    \/ \E r \in Reqs : AgentReturn(r)
    \/ \E r \in Reqs : EvalReturn(r)
    \/ \E r \in Reqs : RouterReturn(r)

\* one call of the router, observed up to its return
SpecRouter == InitRouter /\ [][NextRouter]_vars

\* process start followed by one POST /agent with a given body, from its arrival
\* (the server takes it up once start-up is over) to its response
InitHandler ==
    /\ started = FALSE
    /\ orchestrate_request = "None"
    /\ \E e \in {"true", "false"} :
         environ = [KNOWLEDGE_BASE_ID |-> "", AWS_REGION |-> "us-east-1",
                    EVALUATION_ENABLED |-> e, AWS_DEFAULT_REGION |-> ""]
    /\ loop = 0
    /\ sent \in Bodies
    /\ image_generator_agent = None
    /\ response_text = << >>
    /\ parsed = NotCalled
    /\ agent_messages = << >>
    /\ extracted = NotCalled
    /\ eval_input = NotCalled
    /\ evaluation = NotCalled
    /\ s3_objects = << >>
    /\ tool_calls = << >>
    /\ req = [r \in Reqs |->
                IF r = 1
                THEN [IdleFrame EXCEPT !.pc = "arrived", !.missing = InputMissing(sent)]
                ELSE IdleFrame]

NextHandler ==
    \/ \E has_kb, has_arn \in BOOLEAN : Startup(has_kb, has_arn)
    \/ \E r \in Reqs : HandlerStart(r)
    \/ \E r \in Reqs : HandlerResumeSent(r)
    \/ \E r \in Reqs : AgentReturn(r)
    \/ \E r \in Reqs : EvalReturn(r)
    \/ \E r \in Reqs : RouterReturn(r)
    \/ \E r \in Reqs : HandlerRespond(r)

SpecHandler == InitHandler /\ [][NextHandler]_vars

\* the image endpoint of a started server, serving requests one after another
InitImage ==
    /\ started = TRUE
    /\ orchestrate_request = "orch"
    /\ \E e \in {"true", "false"} :
         environ = [KNOWLEDGE_BASE_ID |-> "kb-id", AWS_REGION |-> "ap-northeast-2",
                    EVALUATION_ENABLED |-> e, AWS_DEFAULT_REGION |-> ""]
    /\ loop = 0
    /\ req = [r \in Reqs |-> IdleFrame]
    /\ sent = NoBody
    /\ image_generator_agent = None
    /\ response_text = << >>
    /\ parsed = NotCalled
    /\ agent_messages = << >>
    /\ extracted = NotCalled
    /\ eval_input = NotCalled
    /\ evaluation = NotCalled
    /\ s3_objects = << >>
    /\ tool_calls = << >>

NextImage ==
    \/ \E r \in Reqs : ArriveImage(r)
    \/ \E r \in Reqs : ImageStart(r)
    \/ \E r \in Reqs : ImageResume(r)
    \/ \E r \in Reqs : ImageReturn(r)

SpecImage == InitImage /\ [][NextImage]_vars

\* a direct call _parse_json_response(response_text)
InitParser ==
    /\ started = TRUE
    /\ orchestrate_request = "orch"
    /\ environ = [KNOWLEDGE_BASE_ID |-> "kb-id", AWS_REGION |-> "ap-northeast-2",
                  EVALUATION_ENABLED |-> "false", AWS_DEFAULT_REGION |-> ""]
    /\ loop = 0
    /\ req = [r \in Reqs |-> IdleFrame]
    /\ sent = NoBody
    /\ image_generator_agent = None
    /\ response_text \in ParserTexts
    /\ parsed = NotCalled
    /\ agent_messages = << >>
    /\ extracted = NotCalled
    /\ eval_input = NotCalled
    /\ evaluation = NotCalled
    /\ s3_objects = << >>
    /\ tool_calls = << >>

NextParser == ParseCall

SpecParser == InitParser /\ [][NextParser]_vars

\* the extraction functions called on a message history
InitExtract ==
    /\ started = TRUE
    /\ orchestrate_request = "orch"
    /\ environ = [KNOWLEDGE_BASE_ID |-> "kb-id", AWS_REGION |-> "ap-northeast-2",
                  EVALUATION_ENABLED |-> "false", AWS_DEFAULT_REGION |-> ""]
    /\ loop = 0
    /\ req = [r \in Reqs |-> IdleFrame]
    /\ sent = NoBody
    /\ image_generator_agent = None
    /\ response_text = << >>
    /\ parsed = NotCalled
    /\ agent_messages \in ExtractionHistories
    /\ extracted = NothingExtracted
    /\ eval_input = NotCalled
    /\ evaluation = NotCalled
    /\ s3_objects = << >>
    /\ tool_calls = << >>

NextExtract == FilterToolResultCall \/ ExtractToolResultsCall

SpecExtract == InitExtract /\ [][NextExtract]_vars

\* run_evaluation called directly
InitEval ==
    /\ started = TRUE
    /\ orchestrate_request = "orch"
    /\ \E e \in {"true", "false"} :
         environ = [KNOWLEDGE_BASE_ID |-> "kb-id", AWS_REGION |-> "ap-northeast-2",
                    EVALUATION_ENABLED |-> e, AWS_DEFAULT_REGION |-> ""]
    /\ loop = 0
    /\ req = [r \in Reqs |-> IdleFrame]
    /\ sent = NoBody
    /\ image_generator_agent = None
    /\ response_text = << >>
    /\ parsed = NotCalled
    /\ agent_messages = << >>
    /\ extracted = NotCalled
    /\ eval_input \in EvalInputs
    /\ evaluation = NotCalled
    /\ s3_objects = << >>
    /\ tool_calls = << >>

NextEval == RunEvaluationCall

SpecEval == InitEval /\ [][NextEval]_vars

\* the image agent's tools, before the first tool call
InitTools ==
    /\ started = TRUE
    /\ orchestrate_request = "orch"
    /\ environ = [KNOWLEDGE_BASE_ID |-> "kb-id", AWS_REGION |-> "ap-northeast-2",
                  EVALUATION_ENABLED |-> "false", AWS_DEFAULT_REGION |-> ""]
    /\ loop = 0
    /\ req = [r \in Reqs |-> IdleFrame]
    /\ sent = NoBody
    /\ image_generator_agent = NewAgent
    /\ response_text = << >>
    /\ parsed = NotCalled
    /\ agent_messages = << >>
    /\ extracted = NotCalled
    /\ eval_input = NotCalled
    /\ evaluation = NotCalled
    /\ s3_objects = << >>
    /\ tool_calls = << >>

NextTools ==
    \/ GenerateImageFromTextCall
    \/ UploadImageToS3Call
    \/ BuildPromptFromTextCall
    \/ HealthCheckCall

SpecTools == InitTools /\ [][NextTools]_vars

---------------------------------------------------------------------------
(* Properties *)

\* some marker of the lexicon occurs in the text
ContainsMarker(text) == \E p \in question_patterns : IsSubstring(p, text)

\* orchestrate_request has been entered with a str
Routed(q) == q.orch_calls > 0 /\ q.user_input.t = "str"

\* orchestrate_request has handed its result to its caller
Returned(q) == q.pc = "orch_done"

\* the run_evaluation calls made from the router itself
RouterEvalCalls(q) == SelectSeq(q.eval_calls, LAMBDA c : c.site = "router")

\* an exception was raised while the collaborator ran (Step 2)
StepTwoRaised(q) ==
    /\ q.agent # None
    /\ q.agent.raised \/ filter_tool_result(q.agent.messages).raised

\* C1: for a text without any marker the router returns exactly
\* {type: "data", content: "", message: saved} and the request makes no call of
\* generate_auto_response and no call of run_evaluation.
C1_DataShortCircuit ==
    \A r \in Reqs :
        LET q == req[r]
        IN  (Routed(q) /\ ~ContainsMarker(q.user_input.s)) =>
              /\ q.qa_calls = << >>
              /\ q.eval_calls = << >>
              /\ q.pc \in {"orch_return", "orch_done"}
              /\ q.result = [type |-> "data", content |-> << >>, message |-> MSG_SAVED]

\* C1 witness: a non-empty text without marker has been returned as data
C1_Witness ==
    \E r \in Reqs :
        /\ Returned(req[r])
        /\ Len(req[r].user_input.s) > 0
        /\ ~ContainsMarker(req[r].user_input.s)
        /\ req[r].result.type = "data"

\* C2: for a text with a marker the router calls generate_auto_response exactly once,
\* with question = user_input and the user_id and current_date it was given.
C2_QuestionCallsQAOnce ==
    \A r \in Reqs :
        LET q == req[r]
        IN  (Routed(q) /\ ContainsMarker(q.user_input.s)) =>
              q.qa_calls = << [question |-> q.user_input, user_id |-> q.user_id,
                               current_date |-> q.current_date] >>

\* C2 witness: a question with user_id and current_date was answered after one call
C2_Witness ==
    \E r \in Reqs :
        /\ Returned(req[r])
        /\ ContainsMarker(req[r].user_input.s)
        /\ req[r].user_id # None
        /\ req[r].current_date # None
        /\ Len(req[r].qa_calls) = 1

\* C3 as stated: every returned result has type "data" if and only if content is "".
C3_DataIffEmptyContent ==
    \A r \in Reqs :
        Returned(req[r]) => (req[r].result.type = "data" <=> req[r].result.content = << >>)

\* C3 amended: a returned result is of type "data" or "answer"; a "data" result has
\* content "", and a result with content is an "answer" (an "answer" may be empty).
C3_DataImpliesEmptyContent ==
    \A r \in Reqs :
        Returned(req[r]) =>
          /\ req[r].result.type \in {"data", "answer"}
          /\ req[r].result.type = "data" => req[r].result.content = << >>

\* C3 witness: a "data" result, with its empty content, has been returned
C3_Witness ==
    \E r \in Reqs :
        /\ Returned(req[r])
        /\ req[r].result.type = "data"
        /\ req[r].result.content = << >>

\* C4 as stated: the router never raises, and an exception raised while Step 2 runs
\* ends as {type: "answer", content: "", message: error text with the cause}.
C4_StepTwoExceptionBecomesEmptyAnswer ==
    \A r \in Reqs :
        LET q == req[r]
        IN  /\ Routed(q) => q.pc # "orch_raised"
            /\ (Returned(q) /\ StepTwoRaised(q)) =>
                  \E cause \in {"ModelError", "KeyError"} :
                      q.result = [type |-> "answer", content |-> << >>,
                                  message |-> AnswerError(cause)]

\* C5 as stated: when the agent or the retrieval raises inside generate_auto_response,
\* the returned result is an "answer" with content "" and the failure only in message.
C5_CollaboratorFailureHasEmptyContent ==
    \A r \in Reqs :
        LET q == req[r]
        IN  (Returned(q) /\ q.agent # None /\ q.agent.raised) =>
              /\ q.result.type = "answer"
              /\ q.result.content = << >>
              /\ q.result.message # MSG_ANSWERED

\* what the router returns for the text and the agent outcome of q, evaluation left out
ResultWithoutEvaluation(q) ==
    IF ~ContainsMarker(q.user_input.s)
    THEN [type |-> "data", content |-> << >>, message |-> MSG_SAVED]
    ELSE [type |-> "answer",
          content |-> IF q.agent.raised THEN AnswerError(q.agent.cause)
                      ELSE IF filter_tool_result(q.agent.messages).raised
                      THEN AnswerError("KeyError")
                      ELSE q.agent.text,
          message |-> MSG_ANSWERED]

\* C6: the result of the router is the one determined by the text and the agent
\* outcome alone, whatever the evaluations reported, and a request whose evaluation
\* reported an error is answered 200 with that result.
C6_EvaluationIsolation ==
    \A r \in Reqs :
        LET q == req[r]
        IN  /\ Returned(q) => q.result = ResultWithoutEvaluation(q)
            /\ (q.pc = "responded" /\ q.eval_failed) =>
                  /\ q.http.status_code = 200
                  /\ q.http.content = q.result
                  /\ q.result.type = "answer"

\* C6 witness: an enabled evaluation reported an error and the answer went out with 200
C6_Witness ==
    \E r \in Reqs :
        /\ EvaluationEnabled
        /\ req[r].pc = "responded"
        /\ req[r].eval_failed
        /\ req[r].http.status_code = 200
        /\ req[r].http.content.content # << >>

C8_ReturnDoesNotWaitForEvaluation ==
    \A r \in Reqs :
        (req[r].pc = "eval_running" /\ req[r].eval_site = "router") => ENABLED RouterReturn(r)

\* C9 as stated: while one request is blocked in a model or retrieval call (or in an
\* evaluation), the handler of another request that has arrived can start.
C9_BlockedRequestDoesNotStallOthers ==
    \A r, s \in Reqs :
        (r # s /\ req[r].pc \in {"agent_call", "eval_running"} /\ req[s].pc = "arrived")
          => ENABLED HandlerStart(s)

FirstNonNull(vs) ==
    IF \A i \in 1..Len(vs) : vs[i] = None THEN None
    ELSE vs[CHOOSE i \in 1..Len(vs) : vs[i] # None /\ \A j \in 1..(i - 1) : vs[j] = None]

\* the first value of vs that is neither null nor "", None when there is none
FirstNonEmpty(vs) ==
    FirstNonNull([i \in 1..Len(vs) |-> IF vs[i] = Str(<< >>) THEN None ELSE vs[i]])

\* the router is running, or has returned, for the observed body
RoutedForSent(q) == sent # NoBody /\ sent.kind = "object" /\ Routed(q)

\* C11 as stated: the text handed to the router is the value of the first alias (content,
\* inputText, input, user_input) that is not null, and the date is record_date if it is
\* not null, else current_date.
C11_FirstNonNullAliasWins ==
    \A r \in Reqs :
        RoutedForSent(req[r]) =>
          /\ req[r].user_input =
                FirstNonNull(<<sent.content, sent.inputText, sent.input, sent.user_input>>)
          /\ req[r].current_date = FirstNonNull(<<sent.record_date, sent.current_date>>)

\* C11 amended: the text handed to the router is the value of the first alias (content,
\* inputText, input, user_input) that is neither null nor "", and the date is
\* record_date if it is neither null nor "", else current_date; an alias holding ""
\* is passed over like a null one.
C11_FirstNonEmptyAliasWins ==
    \A r \in Reqs :
        RoutedForSent(req[r]) =>
          /\ req[r].user_input =
                FirstNonEmpty(<<sent.content, sent.inputText, sent.input, sent.user_input>>)
          /\ req[r].current_date = FirstNonEmpty(<<sent.record_date, sent.current_date>>)

\* C11 witness: content is "", inputText is null and the router was handed `input`
C11_Witness ==
    \E r \in Reqs :
        /\ RoutedForSent(req[r])
        /\ sent.content = Str(<< >>)
        /\ sent.inputText = None
        /\ sent.input = Str(TEXT_INPUT)
        /\ req[r].user_input = Str(TEXT_INPUT)

\* the observed body makes the handler raise inside its try: request.json() fails,
\* the body has no .get, or the text is a number that the router cannot slice
SentRaises ==
    \/ sent.kind \in {"invalid", "array"}
    \/ /\ sent.kind = "object"
       /\ FirstNonEmpty(<<sent.content, sent.inputText, sent.input, sent.user_input>>) = Int5

\* C12: every response of /agent is a mapping with exactly the keys type, content and
\* message, type being "data", "answer" or "error"; the status is 200 exactly when type
\* is "data" or "answer", the content then being the router's result unchanged; an
\* exception escaping the handler's body is answered 500 with
\* {type: "error", content: "", message: processing failed with the cause}.
C12_ResponseShape ==
    \A r \in Reqs :
        req[r].pc = "responded" =>
          LET h == req[r].http
          IN  /\ DOMAIN h.content = {"type", "content", "message"}
              /\ h.content.type \in {"data", "answer", "error"}
              /\ h.status_code \in {200, 400, 500}
              /\ h.status_code = 200 <=> h.content.type \in {"data", "answer"}
              /\ h.status_code = 200 => h.content = req[r].result
              /\ (orchestrate_request = "orch" /\ SentRaises) =>
                    \E cause \in {"JSONDecodeError", "AttributeError", "TypeError"} :
                        h = [status_code |-> 500,
                             content |-> [type |-> "error", content |-> << >>,
                                          message |-> RequestError(cause)]]

\* C12 witness: a body that is not JSON was answered 500 by the catch-all
C12_Witness ==
    \E r \in Reqs :
        /\ req[r].pc = "responded"
        /\ sent = InvalidJson
        /\ req[r].http.status_code = 500
        /\ req[r].http.content.message = RequestError("JSONDecodeError")

\* the reference texts a retrieval can produce
ReferenceTexts == {REF1, REF2}

\* C13: the reference retrieved by the collaborator is never returned.  The result of
\* an answered question is determined by the agent's text alone (so two calls that
\* differ only in the retrieved reference return the same result), it has no field
\* besides type, content and message, none of them holds a reference text, and the
\* /agent response is that result.
C13_ReferenceNotReturned ==
    \A r \in Reqs :
        LET q == req[r]
        IN  /\ (Returned(q) /\ q.agent # None /\ ~q.agent.raised) =>
                  q.result = [type |-> "answer", content |-> q.agent.text,
                              message |-> MSG_ANSWERED]
            /\ (q.pc = "responded" \/ Returned(q)) =>
                  LET out == IF q.pc = "responded" THEN q.http.content ELSE q.result
                  IN  /\ DOMAIN out = {"type", "content", "message"}
                      /\ out.content \notin ReferenceTexts
                      /\ out.message \notin ReferenceTexts

\* C13 witness: the collaborator extracted a reference and the answer went out
C13_Witness ==
    \E r \in Reqs :
        /\ Returned(req[r])
        /\ DictGet(req[r].response, "reference", None) = Str(REF1)
        /\ req[r].result.content = <<"answer_1">>

\* the agent call of q has returned and its session is at hand
SessionAtHand(q) == q.agent # None /\ ~q.agent.raised

\* the texts carried by the tool results of a session
SessionTexts(messages) ==
    { messages[i].content.v[j].toolResult.content.v[1].text :
        <<i, j>> \in { ij \in (1..Len(messages)) \X (1..4) :
                         /\ ij[2] <= Len(messages[ij[1]].content.v)
                         /\ HasKey(messages[ij[1]].content.v[ij[2]], "toolResult") } }

\* C14: the session and the tool-result list of a question are those of the call made
\* for that request: the session starts with the call's own prompt, every tool result
\* extracted from it carries a tool-use id issued during that call, and the reference
\* is the one extracted from these results (None or a text retrieved in that call),
\* whatever other requests were served before or are waiting.
C14_SessionIsRequestLocal ==
    \A r \in Reqs :
        LET q  == req[r]
            tr == filter_tool_result(q.agent.messages)
        IN  (SessionAtHand(q) /\ ~tr.raised) =>
              /\ q.agent.messages[1] = Message("user", <<TextBlock(PROMPT)>>)
              /\ \A i \in 1..Len(q.agent.messages) :
                     q.agent.messages[i].role = (IF i % 2 = 1 THEN "user" ELSE "assistant")
              /\ \A i \in 1..Len(tr.value) : tr.value[i].toolUseId[1] = r
              /\ q.response.reference = ExtractReference(tr.value, None)
              /\ q.response.reference \in
                     {None} \cup {Str(t) : t \in SessionTexts(q.agent.messages)}

\* C14 witness: a question was answered with 200, and a later question of another
\* request has extracted two tool results of its own
C14_Witness ==
    \E r, s \in Reqs :
        /\ r # s
        /\ req[r].pc = "responded"
        /\ req[r].http.content.type = "answer"
        /\ SessionAtHand(req[s])
        /\ Len(filter_tool_result(req[s].agent.messages).value) = 2
        /\ req[s].response.reference = Str(REF1)

\* C15 as stated: the agent driven by run_image_generator starts every request with
\* an empty message history, that is, while a request's call runs the agent's
\* messages hold that request's prompt and nothing else.
C15_AgentStartsWithEmptyHistory ==
    \A r \in Reqs :
        req[r].pc = "image_call" =>
          image_generator_agent.messages =
            <<Message("user", <<TextBlock(req[r].user_input.s)>>)>>

\* C16 as stated: process-wide state (the loaded orchestrator, the environment
\* variables, the module-level agents) is written only during process start: no step
\* taken after start-up changes any of it.
C16_RequestsLeaveProcessStateUnchanged ==
    [][started => /\ orchestrate_request' = orchestrate_request
                  /\ environ' = environ
                  /\ image_generator_agent' = image_generator_agent]_vars

\* start-up ended without the knowledge-base identifier or the model ARN
DegradedStart == started /\ orchestrate_request = "None"

\* the observed body carries a text without any marker: neither the knowledge base nor
\* the model is needed to answer it
SentIsData ==
    /\ sent # NoBody
    /\ sent.kind = "object"
    /\ LET text == FirstNonEmpty(<<sent.content, sent.inputText, sent.input,
                                    sent.user_input>>)
       IN  text.t = "str" /\ ~ContainsMarker(text.s)

\* C17 as stated: start-up always completes, and after a start-up that lacked the
\* knowledge-base identifier or the model ARN the process serves with placeholder
\* values: the identifier is set to a placeholder and a request that needs neither of
\* the missing values (a text that is stored, not answered) gets its normal response.
C17_DegradedStartKeepsServing ==
    /\ ~started => ENABLED (\E has_kb, has_arn \in BOOLEAN : Startup(has_kb, has_arn))
    /\ DegradedStart =>
          /\ environ.KNOWLEDGE_BASE_ID # ""
          /\ \A r \in Reqs :
                (req[r].pc = "responded" /\ SentIsData) =>
                  req[r].http = [status_code |-> 200,
                                 content |-> [type |-> "data", content |-> << >>,
                                              message |-> MSG_SAVED]]

\* request r has been answered with this status
RespondedWith(r, code) == req[r].pc = "responded" /\ req[r].http.status_code = code

\* C18: every /agent request that has arrived ends with a response, provided every
\* collaborator call returns or raises; the response is a 200, a 400 or a 500, and
\* once it is sent nothing more happens for the request (no second response).
C18_EveryRequestGetsOneResponse ==
    \A r \in Reqs :
        /\ (req[r].pc = "arrived") ~> (req[r].pc = "responded")
        /\ \A code \in {200, 400, 500} :
              [](RespondedWith(r, code) => []RespondedWith(r, code))
        /\ [](req[r].pc = "responded" => \E code \in {200, 400, 500} : RespondedWith(r, code))

\* C18 witness: one request ended with the failure text of a raising agent call
\* (200), the other one as a client error (400)
C18_Witness ==
    \E r, s \in Reqs :
        /\ req[r].pc = "responded"
        /\ req[r].http.status_code = 200
        /\ req[r].http.content.content = AnswerError("ModelError")
        /\ req[s].pc = "responded"
        /\ req[s].http.status_code = 400

\* the slices text[i:j] of a text
Slices(text) == { SubSeq(text, i, j) : i \in 1..(Len(text) + 1), j \in 0..Len(text) }

\* the verdict the router acted on: QUESTION when it called the collaborator
ActedAsQuestion(q) == q.qa_calls # << >>

\* C19: the classifier's verdict is QUESTION exactly when some marker of the lexicon
\* is a slice of the text; it is DATA for the empty text; it is defined for every
\* text (the call never raises); and calling it again on the text, in whatever state,
\* gives the verdict the router acted on.
C19_ClassifierIsPure ==
    \A r \in Reqs :
        LET q == req[r]
        IN  Routed(q) =>
              /\ ActedAsQuestion(q) <=> (Slices(q.user_input.s) \cap question_patterns # {})
              /\ q.user_input.s = << >> => ~ActedAsQuestion(q)
              /\ is_likely_question(q.user_input.s) \in BOOLEAN
              /\ is_likely_question(q.user_input.s) = ActedAsQuestion(q)
              /\ q.pc # "orch_raised"

\* C19 witness: a text whose marker is not at its start was taken as a question, and
\* the router has returned
C19_Witness ==
    \E r \in Reqs :
        /\ Returned(req[r])
        /\ Len(req[r].user_input.s) = 3
        /\ req[r].user_input.s[1] = "da"
        /\ req[r].user_input.s[3] = "?"
        /\ ActedAsQuestion(req[r])

\* a == b for two Python values: dicts are equal when they map the same keys to equal
\* values, whatever the order of insertion
RECURSIVE PyEq(_, _)
PyEq(a, b) ==
    IF a.t # b.t THEN FALSE
    ELSE CASE a.t = "dict" ->
                /\ Len(a.items) = Len(b.items)
                /\ \A i \in 1..Len(a.items) :
                      \E j \in 1..Len(b.items) :
                          b.items[j].k = a.items[i].k /\ PyEq(a.items[i].v, b.items[j].v)
           [] a.t = "list" ->
                /\ Len(a.v) = Len(b.v)
                /\ \A i \in 1..Len(a.v) : PyEq(a.v[i], b.v[i])
           [] OTHER -> a = b

\* C20: for every JSON object obj that has the keys type, content and message,
\* _parse_json_response(json.dumps(obj)) == obj.
C20_ParserRoundTrip ==
    parsed # NotCalled =>
      \A obj \in RoundTripObjects :
          RoundTripTexts[obj] = response_text => PyEq(parsed, obj)

\* C20 witness: an object whose content is itself an object with a "type" key has
\* gone through the parser
C20_Witness ==
    /\ parsed # NotCalled
    /\ parsed.t = "dict"
    /\ \E i \in 1..Len(parsed.items) :
          /\ parsed.items[i].k = <<"content">>
          /\ parsed.items[i].v = PyDict(<<Item(<<"type">>, Str(<<"answer">>))>>)

---------------------------------------------------------------------------
(* The response parser on texts that are not clean JSON *)

\* the parser was called and returned a value
ParserReturned == parsed # NotCalled /\ parsed.t # "raised"

\* what each parsing stage makes of the text at hand
StageDirect == json_loads(Strip(response_text))

StageFenced ==
    LET block == FencedGroup(Strip(response_text))
    IN  IF block.found THEN json_loads(block.group) ELSE DecodeError

StageBrace ==
    LET brace == BraceGroup(Strip(response_text))
    IN  IF brace.found THEN json_loads(brace.group) ELSE DecodeError

\* the value returned is that of the first stage that succeeds, in the order direct,
\* fenced, brace, default
FirstSuccessWins ==
    ParserReturned =>
      /\ StageDirect.ok => parsed = StageDirect.value
      /\ ~StageDirect.ok /\ StageFenced.ok => parsed = StageFenced.value
      /\ ~StageDirect.ok /\ ~StageFenced.ok /\ StageBrace.ok => parsed = StageBrace.value
      /\ ~StageDirect.ok /\ ~StageFenced.ok /\ ~StageBrace.ok => parsed = DefaultResponse

\* a closing brace of the text is followed, after optional white space, by a fence
BraceBeforeFence(text) ==
    \E e \in 1..Len(text) :
        /\ text[e] = "}"
        /\ SkipWhitespace(text, e + 1) <= Len(text)
        /\ text[SkipWhitespace(text, e + 1)] = FENCE

\* C21 as stated: the stages apply in the order direct, fenced, brace, default and the
\* first success is returned; every text made of prose, a fenced block holding a JSON
\* object and prose yields exactly that object.
C21_FencedObjectAlwaysRecovered ==
    /\ FirstSuccessWins
    /\ parsed # NotCalled =>
          \A obj \in FencedObjects, tag \in FenceTags, gap \in FenceGaps :
              response_text = FencedText(obj, tag, gap) => parsed = obj

\* C21: the stages apply in the order direct, fenced, brace, default and the first
\* success is returned; a text made of prose, a fenced block holding a JSON object and
\* prose yields exactly that object when no closing brace inside the object is followed
\* by a fence.
C21_FencedObjectRecovered ==
    /\ FirstSuccessWins
    /\ parsed # NotCalled =>
          \A obj \in FencedObjects, tag \in FenceTags, gap \in FenceGaps :
              response_text = FencedText(obj, tag, gap) /\ ~BraceBeforeFence(json_dumps(obj))
                  => parsed = obj

\* C21 witness: the object {type: answer, content: x, message: m} has been recovered
\* from a json-tagged fenced block between a prefix and a suffix
C21_Witness ==
    /\ response_text = FencedText(FlatObject, <<"json">>, <<"\n">>)
    /\ parsed = FlatObject

\* C22 as stated: the parser never raises, and when the three parsing stages fail it
\* returns the default {type: data, content: "", message: saved}.
C22_ParserNeverRaises ==
    parsed # NotCalled =>
      /\ parsed.t # "raised"
      /\ ~StageDirect.ok /\ ~StageFenced.ok /\ ~StageBrace.ok => parsed = DefaultResponse

\* C23 as stated: whatever the text, the value returned by the parser is a mapping that
\* has the fields type, content and message.
C23_ResultIsWellFormed ==
    ParserReturned =>
      /\ parsed.t = "dict"
      /\ \A k \in {<<"type">>, <<"content">>, <<"message">>} :
            \E i \in 1..Len(parsed.items) : parsed.items[i].k = k

---------------------------------------------------------------------------
(* Tool-result and reference extraction *)

\* the calls of the extraction functions that have been made
ExtractionsDone ==
    IF extracted = NotCalled THEN {}
    ELSE { f \in {"qa", "orchestra"} : extracted[f] # NotCalled }

\* the tool result of every block tagged toolResult, in message order and, within a
\* message, in block order
EncounterOrderResults(messages) ==
    Flatten([i \in 1..Len(messages) |->
        LET m      == messages[i]
            blocks == IF HasKey(m, "content") /\ m.content.t = "list" THEN m.content.v
                      ELSE << >>
            tagged == SelectSeq(blocks, LAMBDA b : HasKey(b, "toolResult"))
        IN  [j \in 1..Len(tagged) |-> tagged[j].toolResult]])

\* C24 as stated: the extraction returns exactly the tool results of the blocks tagged
\* as tool results, each once, in encounter order.
C24_ToolResultsOnceInOrder ==
    \A f \in ExtractionsDone :
        ~extracted[f].raised =>
            extracted[f].tool_results = EncounterOrderResults(agent_messages)

\* C25 as stated: neither extraction raises on a malformed history, and the well-formed
\* entry with the text block hello that follows a malformed entry gives the reference
\* hello.
C25_ExtractionNeverRaises ==
    /\ \A f \in ExtractionsDone : ~extracted[f].raised
    /\ "qa" \in ExtractionsDone
          /\ agent_messages = << Message("user", <<ToolResultBlock(TR_NO_CONTENT)>>),
                                 Message("user", <<ToolResultBlock(TR_HELLO)>>) >>
          => extracted.qa.reference = Str(<<"hello">>)

\* the text one content block of a tool result contributes, << >> when it does not match
BlockMatch(item) ==
    IF ~IsDict(item) THEN << >>
    ELSE IF HasKey(item, "text") THEN <<item.text>>
    ELSE IF HasKey(item, "json") /\ IsDict(item.json)
    THEN IF HasKey(item.json, "text") THEN <<item.json.text>>
         ELSE IF HasKey(item.json, "content") THEN <<item.json.content.s>>
         ELSE << >>
    ELSE << >>

\* the matching texts of one tool result, a str content counting as one plain text
ResultMatches(tool_result) ==
    IF ~IsDict(tool_result) \/ ~HasKey(tool_result, "content") THEN << >>
    ELSE IF tool_result.content.t = "list"
    THEN Flatten([i \in 1..Len(tool_result.content.v) |->
                     BlockMatch(tool_result.content.v[i])])
    ELSE IF tool_result.content.t = "str" THEN <<tool_result.content.s>>
    ELSE << >>

\* every match of every tool result, in first-seen order
AllMatches(tool_results) ==
    Flatten([i \in 1..Len(tool_results) |-> ResultMatches(tool_results[i])])

\* C26 as stated: the reference is the concatenation, with a blank line between them, of
\* every matching block of every tool result, and it is null or empty only when no
\* block matches.
C26_ReferenceConcatenatesMatches ==
    \A f \in ExtractionsDone :
        ~extracted[f].raised =>
            LET matches == AllMatches(extracted[f].tool_results)
            IN  IF matches = << >>
                THEN extracted[f].reference \in {None, Str(<< >>)}
                ELSE extracted[f].reference = Str(Join(matches, <<"\n", "\n">>))

---------------------------------------------------------------------------
(* How often one request asks for an evaluation *)

\* C27 as stated: for one /agent request run_evaluation is invoked at most once, the
\* router and the collaborator taken together.
C27_EvaluationRequestedAtMostOnce ==
    \A r \in Reqs : Len(req[r].eval_calls) <= 1

---------------------------------------------------------------------------
(* The orchestrator reference *)

\* a request that neither had its body read nor reached the router or a collaborator
Untouched(q) ==
    /\ q.pc \in {"idle", "arrived", "responded"}
    /\ q.orch_calls = 0
    /\ q.qa_calls = << >>
    /\ q.eval_calls = << >>

\* C28: the orchestrator reference is None until startup_handler has run, changes only
\* there (so it is never reset to None and stays None for good when loading failed);
\* while it is None no request has its body read or reaches a collaborator, and every
\* answer is 500 with type error, also for a request without input.
C28_OrchestratorNoneMeans500 ==
    /\ [](~started => orchestrate_request = "None")
    /\ [][started => orchestrate_request' = orchestrate_request]_vars
    /\ [](orchestrate_request = "None" =>
            \A r \in Reqs :
                /\ Untouched(req[r])
                /\ req[r].pc = "responded" =>
                      req[r].http = JSONResponse(500, ErrorContent(MSG_INIT_FAILED)))

\* C28 witness: loading failed at start-up and a request without input was answered 500
C28_Witness ==
    /\ started
    /\ orchestrate_request = "None"
    /\ \E r \in Reqs :
          /\ req[r].pc = "responded"
          /\ req[r].missing
          /\ req[r].http.status_code = 500
          /\ req[r].http.content.type = "error"

---------------------------------------------------------------------------
(* run_evaluation called directly *)

\* the config the call at hand works with
ConfigAtHand == ConfigOf(eval_input.config, environ)

\* the step that raises in the scenario at hand is one the call runs
FailingStepRuns ==
    \E i \in 1..Len(StepsOf(ConfigAtHand)) : StepsOf(ConfigAtHand)[i] = eval_input.scenario

\* C29: run_evaluation never raises; a disabled evaluation returns the error
\* "Evaluation disabled" without contacting Phoenix or the model service, and an
\* enabled one whose step fails (missing library, no spans, service error) returns a
\* result whose error field reports it, and a result without error otherwise.
C29_RunEvaluationNeverRaises ==
    evaluation # NotCalled =>
      /\ ~evaluation.raised
      /\ ~ConfigAtHand.enabled =>
            /\ evaluation.error = Str(<<"Evaluation disabled">>)
            /\ evaluation.contacts = << >>
      /\ ConfigAtHand.enabled =>
            (evaluation.error # None
               <=> (eval_input.scenario = "no_spans" \/ FailingStepRuns))

\* C29 witness: the relevance judge failed during an enabled evaluation after Phoenix
\* and the model service had been contacted, and the call returned the error
C29_Witness ==
    /\ evaluation # NotCalled
    /\ ConfigAtHand.enabled
    /\ eval_input.scenario = "relevance_run"
    /\ ~evaluation.raised
    /\ evaluation.error = Str(<<"relevance_run", " failed">>)
    /\ Len(evaluation.contacts) = 2

\* a recorded call of the upload tool
IsUpload(c) == c.tool = "upload_image_to_s3"

\* a recorded upload call that was handed an empty user_id or an empty image_base64
EmptyArgument(c) == ~Truthy(c.args.user_id) \/ ~Truthy(c.args.image_base64)

\* the put_object calls of all the recorded tool calls, in order
RECURSIVE PutsOf(_)
PutsOf(calls) == IF calls = << >> THEN << >> ELSE Head(calls).puts \o PutsOf(Tail(calls))

\* C30: S3 receives a put_object call only from the upload tool, and only when both
\* user_id and image_base64 are non-empty: the preview tool and the prompt-only tool
\* make none, and the upload tool handed an empty user_id or an empty image_base64
\* returns {success: false, error} without any S3 call
C30_S3WrittenOnlyByUpload ==
    /\ s3_objects = PutsOf(tool_calls)
    /\ \A i \in 1..Len(tool_calls) :
         LET c == tool_calls[i]
         IN  /\ c.puts # << >> => IsUpload(c) /\ ~EmptyArgument(c)
             /\ IsUpload(c) /\ EmptyArgument(c) =>
                  /\ DOMAIN c.result = {"success", "error"}
                  /\ c.result.success = FALSE
                  /\ c.puts = << >>

\* an upload with both arguments wrote one object, after an upload without user_id was
\* refused
C30_Witness ==
    /\ Len(tool_calls) = 2
    /\ IsUpload(tool_calls[1]) /\ EmptyArgument(tool_calls[1])
    /\ tool_calls[1].result = [success |-> FALSE, error |-> "user_id is required"]
    /\ IsUpload(tool_calls[2]) /\ tool_calls[2].result.success
    /\ Len(s3_objects) = 1
    /\ s3_objects[1].Key = <<"u1", "/history/", "2024", "/", "01", "/", "15",
                             "/image_", "timestamp", ".png">>

=============================================================================
